---------------------------- MODULE Spec2Model ----------------------------
(***************************************************************************)
(* Library catalog ingestion and preview engine of the Dashboard page      *)
(* (src/unnamed/part_002, the latest revision of                           *)
(* frontend/src/pages/Dashboard.tsx).                                      *)
(*                                                                         *)
(* JSON values are tagged records:                                         *)
(*   [t |-> "null"], [t |-> "bool", v], [t |-> "num", v], [t |-> "inf"],   *)
(*   [t |-> "str", v], [t |-> "arr", v |-> <<...>>] and                    *)
(*   [t |-> "obj", v |-> << [k |-> key, v |-> value], ... >>]              *)
(* where an object's pairs are in property enumeration order.              *)
(* [t |-> "undefined"] is the value of a missing property.  JavaScript     *)
(* strings are TLA+ strings.                                               *)
(***************************************************************************)
EXTENDS Integers, Sequences, FiniteSets, TLC

VARIABLES
    \* ---- library text pipeline (parseLibraryItemsFromText) ----
    rawText,        \* the text handed to parseLibraryItemsFromText
    now,            \* Date.now() at the time of the call
    parsePc,        \* "input" | "done" ("idle" where no text is being parsed)
    parseResult,    \* what the call produced: [err, items, candidates]
    \* ---- preview renderer (PreviewElementsSvg) ----
    previewElements,    \* the elements prop
    previewBounds,      \* the memoized computeItemPreviewBounds(elements); JNull before
                        \* the first render
    previewShapes,      \* the children of the <svg> of the last render, one per element
    \* ---- touch panning (the effect on excalidrawApi) ----
    touchPointerIds,    \* touchPointerIdsRef.current: the touch pointers that are down
    toolBeforeTouch,    \* toolBeforeTouchRef.current: JNull or the tool to go back to
    activeTool,         \* the editor's appState.activeTool
    \* ---- Dashboard component state (useState / useRef) ----
    isCatalogOpen,
    catalogLoadState,                       \* "idle" | "loading" | "ready" | "error"
    catalogCollections,                     \* sequence of CatalogCollection
    catalogPreviewElementsByCollectionId,   \* collection id -> element sequence
    catalogError,                           \* JNull or JStr(message)
    collectionBeingAddedId,                 \* JNull or JStr(collection id)
    catalogSelection,                       \* JNull or CatalogSelectionState
    catalogPreviewLoadingRef,               \* set of collection ids
    excalidrawApi,                          \* "none" | "updateLibrary" | "updateScene"
    \* ---- suspended async calls and the environment ----
    catalogFetches,     \* loadCatalogCollections calls awaiting their fetch
    hydrations,         \* collection id -> ensureCatalogCollectionPreview calls awaiting
    guardedCalls,       \* handlePreviewCollection / handleImportCatalogSelection calls awaiting
    fetchesIssued,      \* fetch() calls made so far
    lastCall            \* the last handler run: what it did, the toast it showed,
                        \* the host call it made, the fetch outcome it was resumed with

svgVars == <<previewElements, previewBounds, previewShapes>>

\* What the component's handlers never touch: the text pipeline, the
\* preview renderer and the touch panning.
touchVars == <<touchPointerIds, toolBeforeTouch, activeTool>>

parseVars == <<rawText, now, parsePc, parseResult, svgVars, touchVars>>

stateVars ==
    <<isCatalogOpen, catalogLoadState, catalogCollections, catalogPreviewElementsByCollectionId,
      catalogError, collectionBeingAddedId, catalogSelection, catalogPreviewLoadingRef,
      excalidrawApi>>

envVars ==
    <<catalogFetches, hydrations, guardedCalls, fetchesIssued, lastCall>>

vars == <<parseVars, stateVars, envVars>>

(***************************************************************************)
(* JSON values                                                             *)
(***************************************************************************)
Undefined == [t |-> "undefined"]
JNull == [t |-> "null"]
JNum(n) == [t |-> "num", v |-> n]
JInf == [t |-> "inf"]
JStr(s) == [t |-> "str", v |-> s]
JArr(s) == [t |-> "arr", v |-> s]
JObj(pairs) == [t |-> "obj", v |-> pairs]
Pair(key, value) == [k |-> key, v |-> value]

IsArray(value) == value.t = "arr"
IsString(value) == value.t = "str"
\* typeof value === 'number' && Number.isFinite(value)
IsFiniteNumber(value) == value.t = "num"

\* node[key]: own property of a parsed JSON object; arrays and scalars have
\* none of the keys the program reads.
HasKey(node, key) == node.t = "obj" /\ \E i \in 1..Len(node.v) : node.v[i].k = key
Get(node, key) ==
    IF HasKey(node, key)
    THEN node.v[CHOOSE i \in 1..Len(node.v) : node.v[i].k = key].v
    ELSE Undefined

\* Object.values(node)
ObjectValues(node) ==
    IF node.t = "obj" THEN [i \in 1..Len(node.v) |-> node.v[i].v]
    ELSE IF node.t = "arr" THEN node.v
    ELSE <<>>

\* {...obj, [key]: value}: an existing key keeps its place, a new one is appended.
SetKey(pairs, key, value) ==
    IF \E i \in 1..Len(pairs) : pairs[i].k = key
    THEN [i \in 1..Len(pairs) |-> IF pairs[i].k = key THEN Pair(key, value) ELSE pairs[i]]
    ELSE Append(pairs, Pair(key, value))

RECURSIVE Flatten(_)
Flatten(seqs) == IF seqs = <<>> THEN <<>> ELSE Head(seqs) \o Flatten(Tail(seqs))

(***************************************************************************)
(* Strings                                                                 *)
(***************************************************************************)
IsWhiteSpace(c) == c \in {" ", "\t", "\n", "\r"}

RECURSIVE TrimStart(_)
TrimStart(s) ==
    IF Len(s) = 0 THEN s
    ELSE IF IsWhiteSpace(SubSeq(s, 1, 1)) THEN TrimStart(SubSeq(s, 2, Len(s)))
    ELSE s

RECURSIVE TrimEnd(_)
TrimEnd(s) ==
    IF Len(s) = 0 THEN s
    ELSE IF IsWhiteSpace(SubSeq(s, Len(s), Len(s))) THEN TrimEnd(SubSeq(s, 1, Len(s) - 1))
    ELSE s

\* String.prototype.trim
Trim(s) == TrimEnd(TrimStart(s))

Digit(n) == SubSeq("0123456789", n + 1, n + 1)

\* `${n}` for a non-negative integer
RECURSIVE NumToString(_)
NumToString(n) == IF n < 10 THEN Digit(n) ELSE NumToString(n \div 10) \o Digit(n % 10)

\* typeof value === 'string' && value.trim()
IsNonBlankString(value) == IsString(value) /\ Trim(value.v) # ""

(***************************************************************************)
(* Library entry extractor and item normalizer                             *)
(***************************************************************************)
LIBRARY_ARRAY_CANDIDATE_KEYS ==
    <<"libraryItems", "items", "library", "libraries", "payload", "content", "data">>

\* typeof value === 'object' && value !== null: true of arrays too
isRecord(value) == value.t \in {"obj", "arr"}

extractRecordArray_FirstOnly(value) ==
    IF ~IsArray(value) \/ Len(value.v) = 0 \/ ~isRecord(value.v[1]) THEN <<>> ELSE <<value.v[1]>>
extractRecordArray(value) ==
    IF ~IsArray(value) THEN <<>>
    ELSE SelectSeq(value.v, LAMBDA entry : isRecord(entry))

extractLibraryEntryArray(value) ==
    IF ~IsArray(value) THEN <<>>
    ELSE SelectSeq(value.v, LAMBDA entry : isRecord(entry) \/ IsArray(entry))

extractItemElements_DirectOnly(libraryItem) == extractRecordArray(Get(libraryItem, "elements"))
extractItemElements(libraryItem) ==
    LET directElements == extractRecordArray(Get(libraryItem, "elements"))
    IN  IF Len(directElements) > 0 THEN directElements
        ELSE IF ~isRecord(Get(libraryItem, "data")) THEN <<>>
        ELSE extractRecordArray(Get(Get(libraryItem, "data"), "elements"))

\* The depth bound of the traversal
ExtractMaxDepth == 5

\* if (depth > 5) continue
TooDeep_Never(depth) == FALSE
TooDeep(depth) == depth > ExtractMaxDepth

Enqueue(nodes, depth) == [i \in 1..Len(nodes) |-> [node |-> nodes[i], depth |-> depth]]

\* The candidates a keyed structure exposes under the known container keys
KeyCandidates(node) ==
    Flatten([i \in 1..Len(LIBRARY_ARRAY_CANDIDATE_KEYS) |->
        LET value == Get(node, LIBRARY_ARRAY_CANDIDATE_KEYS[i])
            libraryEntries == extractLibraryEntryArray(value)
        IN  IF IsArray(value) /\ Len(libraryEntries) > 0 THEN <<libraryEntries>> ELSE <<>>])

\* The while loop over the work queue
RECURSIVE TraverseQueue(_, _)
TraverseQueue(queue, candidateArrays) ==
    IF queue = <<>> THEN candidateArrays
    ELSE
        LET node == Head(queue).node
            depth == Head(queue).depth
            rest == Tail(queue)
        IN  IF TooDeep(depth) THEN TraverseQueue(rest, candidateArrays)
            ELSE IF IsArray(node) THEN
                LET libraryEntries == extractLibraryEntryArray(node)
                IN  TraverseQueue(
                        rest \o Enqueue(libraryEntries, depth + 1),
                        IF Len(libraryEntries) > 0
                        THEN Append(candidateArrays, libraryEntries)
                        ELSE candidateArrays)
            ELSE IF ~isRecord(node) THEN TraverseQueue(rest, candidateArrays)
            ELSE
                TraverseQueue(
                    rest \o Enqueue(
                        SelectSeq(ObjectValues(node),
                                  LAMBDA value : isRecord(value) \/ IsArray(value)),
                        depth + 1),
                    candidateArrays \o KeyCandidates(node))

extractCandidateLibraryArrays(parsed) ==
    TraverseQueue(<<[node |-> parsed, depth |-> 0]>>, <<>>)

\* {...entryRecord}: the own enumerable properties (index keys for an array)
Spread(entryRecord) ==
    IF entryRecord.t = "obj" THEN entryRecord.v
    ELSE [i \in 1..Len(entryRecord.v) |-> Pair(NumToString(i - 1), entryRecord.v[i])]

\* if (elements.length === 0) return []
DropsEntry_Never(elements) == FALSE
DropsEntry(elements) == Len(elements) = 0

\* `item-${index + 1}`
SyntheticId_NoIndex(index) == "item-1"
SyntheticId(index) == "item-" \o NumToString(index + 1)

\* `Figura ${index + 1}`
SyntheticName(index) == "Figura " \o NumToString(index + 1)

\* The flatMap callback; index is zero-based
NormalizeEntry(entry, index) ==
    LET isRec == isRecord(entry)
        elements == IF isRec THEN extractItemElements(entry) ELSE extractRecordArray(entry)
        rawId ==
            IF isRec /\ IsNonBlankString(Get(entry, "id"))
            THEN Trim(Get(entry, "id").v)
            ELSE SyntheticId(index)
        rawName ==
            IF isRec /\ IsNonBlankString(Get(entry, "name"))
            THEN Trim(Get(entry, "name").v)
            ELSE SyntheticName(index)
        rawStatus ==
            IF isRec /\ IsNonBlankString(Get(entry, "status"))
            THEN Trim(Get(entry, "status").v)
            ELSE "published"
        createdAt ==
            IF isRec /\ IsFiniteNumber(Get(entry, "created"))
            THEN Get(entry, "created").v
            ELSE now + index
    IN  IF DropsEntry(elements) THEN <<>>
        ELSE << JObj(
                SetKey(SetKey(SetKey(SetKey(SetKey(
                    IF isRec THEN Spread(entry) ELSE <<>>,
                    "id", JStr(rawId)),
                    "name", JStr(rawName)),
                    "status", JStr(rawStatus)),
                    "created", JNum(createdAt)),
                    "elements", JArr(elements))) >>

normalizeLibraryItems(libraryItems) ==
    Flatten([i \in 1..Len(libraryItems) |-> NormalizeEntry(libraryItems[i], i - 1)])

\* Array.prototype.sort is stable: insertion of each candidate after every
\* candidate that is at least as long.
SortByLengthDesc_Unsorted(seqs) == seqs
RECURSIVE SortByLengthDesc_TiesReversed(_)
SortByLengthDesc_TiesReversed(seqs) ==
    IF seqs = <<>> THEN <<>>
    ELSE
        LET sortedInit == SortByLengthDesc_TiesReversed(SubSeq(seqs, 1, Len(seqs) - 1))
            last == seqs[Len(seqs)]
            keep == SelectSeq(sortedInit, LAMBDA c : Len(c) > Len(last))
            after == SelectSeq(sortedInit, LAMBDA c : Len(c) <= Len(last))
        IN  keep \o <<last>> \o after
RECURSIVE SortByLengthDesc(_)
SortByLengthDesc(seqs) ==
    IF seqs = <<>> THEN <<>>
    ELSE
        LET sortedInit == SortByLengthDesc(SubSeq(seqs, 1, Len(seqs) - 1))
            last == seqs[Len(seqs)]
            keep == SelectSeq(sortedInit, LAMBDA c : Len(c) >= Len(last))
            after == SelectSeq(sortedInit, LAMBDA c : Len(c) < Len(last))
        IN  keep \o <<last>> \o after

NormalizedCandidates(candidateArrays) ==
    SortByLengthDesc(
        SelectSeq([i \in 1..Len(candidateArrays) |-> normalizeLibraryItems(candidateArrays[i])],
                  LAMBDA candidateArray : Len(candidateArray) > 0))

extractLibraryItems(parsed) ==
    LET candidateArrays == extractCandidateLibraryArrays(parsed)
    IN  IF Len(candidateArrays) = 0 THEN <<>>
        ELSE
            LET normalizedCandidates == NormalizedCandidates(candidateArrays)
            IN  IF Len(normalizedCandidates) > 0 THEN normalizedCandidates[1] ELSE <<>>

(***************************************************************************)
(* Library text: the body of a fetched collection or of a local file.      *)
(* JSON.parse is the platform's; a text is modelled by whether it starts    *)
(* with a byte order mark and by the value it denotes, NotJson when it     *)
(* denotes none.                                                           *)
(***************************************************************************)
NotJson == [t |-> "notjson"]
Text(bom, json) == [bom |-> bom, json |-> json]

\* value.replace(/^<BOM>/, '').trim(): the mark is removed
stripUtf8Bom(value) == [value EXCEPT !.bom = FALSE]

\* JSON.parse rejects a leading byte order mark and anything that is not JSON
JsonParseFails(text) == text.bom \/ text.json = NotJson

ERR_NOT_JSON == "El contenido no es JSON valido."
ERR_NO_FIGURES == "No se encontraron figuras para importar."

\* The outcome of a call: err = "" when it returns, the message when it throws
Returned(items) == [err |-> "", items |-> items]
Thrown(message) == [err |-> message, items |-> <<>>]

parseLibraryItemsFromText(text) ==
    IF JsonParseFails(stripUtf8Bom(text)) THEN Thrown(ERR_NOT_JSON)
    ELSE
        LET libraryItems == extractLibraryItems(stripUtf8Bom(text).json)
        IN  IF Len(libraryItems) = 0 THEN Thrown(ERR_NO_FIGURES)
            ELSE Returned(libraryItems)

(***************************************************************************)
(* Catalog document: the list of available collections                     *)
(***************************************************************************)
LIBRARY_SOURCE_BASE_URL ==
    "https://raw.githubusercontent.com/excalidraw/excalidraw-libraries/main/libraries/"

\* A CatalogCollection; the optional fields are Undefined or JStr
Collection(id, name, source, description, author, preview) ==
    [id |-> id, name |-> name, source |-> source,
     description |-> description, author |-> author, preview |-> preview]

FALLBACK_CATALOG ==
    << Collection("fallback-charts", "Charts", "charts/charts.json",
                  JStr("Coleccion de graficos y elementos para tableros."), JStr("lamwai82"), Undefined),
       Collection("fallback-brands", "Brand Logos", "brands/brands logos (library).json",
                  JStr("Iconos y logotipos para diagramas de producto."), JStr("chakrihacker"), Undefined),
       Collection("fallback-humanities", "Humanities and Social Sciences Icons",
                  "education/literature/humanities-and-social-sciences-icons.json",
                  JStr("Iconos educativos para mapas conceptuales."), JStr("jerrylow"), Undefined),
       Collection("fallback-material", "Material Icons (Filled)",
                  "libraries/icons/material-design-icons-filled.excalidrawlib",
                  JStr("Pack de iconos generales tipo material."), JStr("toolzflow"), Undefined),
       Collection("fallback-cosmos", "Cosmology Icons", "science/physics/cosmology icons.excalidrawlib",
                  JStr("Coleccion cientifica para diagramas de fisica."), JStr("rdrahn"), Undefined),
       Collection("fallback-theory", "Theory of Constraints",
                  "business/strategy and planning/theory_of_constraints_3_entities.json",
                  JStr("Plantillas para teoria de restricciones."), JStr("mihaialbert"), Undefined) >>

StartsWith(s, prefix) == Len(s) >= Len(prefix) /\ SubSeq(s, 1, Len(prefix)) = prefix

\* source.replace(/^\/+/, '')
RECURSIVE StripLeadingSlashes(_)
StripLeadingSlashes(s) ==
    IF StartsWith(s, "/") THEN StripLeadingSlashes(SubSeq(s, 2, Len(s))) ELSE s

\* An absolute http(s) or data address is used as it is, anything else is a
\* path below the base address (the URL parser's percent-encoding is left out).
resolveCatalogAssetUrl(source) ==
    IF StartsWith(source, "http://") \/ StartsWith(source, "https://") \/ StartsWith(source, "data:")
    THEN source
    ELSE LIBRARY_SOURCE_BASE_URL \o StripLeadingSlashes(source)

\* The first non-blank string among the given fields of a record, trimmed
RECURSIVE FirstNonBlankField(_, _)
FirstNonBlankField(record, fields) ==
    IF fields = <<>> THEN Undefined
    ELSE IF IsNonBlankString(Get(record, Head(fields))) THEN JStr(Trim(Get(record, Head(fields)).v))
    ELSE FirstNonBlankField(record, Tail(fields))

extractCatalogPreview(entry) ==
    LET preview == Get(entry, "preview")
    IN  IF IsNonBlankString(preview) THEN JStr(Trim(preview.v))
        ELSE IF ~isRecord(preview) THEN Undefined
        ELSE FirstNonBlankField(preview, <<"url", "src", "image", "path">>)

\* The first of the given keys that holds an array with at least one record
RECURSIVE FirstRecordArray(_, _)
FirstRecordArray(rawCatalog, keys) ==
    IF keys = <<>> THEN <<>>
    ELSE IF IsArray(Get(rawCatalog, Head(keys)))
            /\ Len(extractRecordArray(Get(rawCatalog, Head(keys)))) > 0
         THEN extractRecordArray(Get(rawCatalog, Head(keys)))
         ELSE FirstRecordArray(rawCatalog, Tail(keys))

extractCatalogEntries(rawCatalog) ==
    IF IsArray(rawCatalog) THEN extractRecordArray(rawCatalog)
    ELSE IF ~isRecord(rawCatalog) THEN <<>>
    ELSE FirstRecordArray(rawCatalog, <<"libraries", "items", "collections", "catalog">>)

\* authorNames.join(', ')
RECURSIVE JoinNames(_)
JoinNames(names) ==
    IF Len(names) = 0 THEN ""
    ELSE IF Len(names) = 1 THEN names[1]
    ELSE names[1] \o ", " \o JoinNames(Tail(names))

AuthorName(authorEntry) ==
    IF IsNonBlankString(authorEntry) THEN <<Trim(authorEntry.v)>>
    ELSE IF isRecord(authorEntry) /\ IsNonBlankString(Get(authorEntry, "name"))
         THEN <<Trim(Get(authorEntry, "name").v)>>
         ELSE <<>>

extractCatalogAuthor(entry) ==
    IF IsNonBlankString(Get(entry, "author")) THEN JStr(Trim(Get(entry, "author").v))
    ELSE IF isRecord(Get(entry, "author")) /\ IsNonBlankString(Get(Get(entry, "author"), "name"))
         THEN JStr(Trim(Get(Get(entry, "author"), "name").v))
    ELSE IF ~IsArray(Get(entry, "authors")) THEN Undefined
    ELSE
        LET authors == Get(entry, "authors").v
            authorNames == Flatten([i \in 1..Len(authors) |-> AuthorName(authors[i])])
        IN  IF Len(authorNames) = 0 THEN Undefined ELSE JStr(JoinNames(authorNames))

\* `${source}-${index}`
CollectionId_SourceOnly(source, index) == source
CollectionId(source, index) == source \o "-" \o NumToString(index)

\* The flatMap callback; index is zero-based
ParseCatalogEntry(entry, index) ==
    LET name == IF IsString(Get(entry, "name")) THEN Trim(Get(entry, "name").v) ELSE ""
        source == IF IsString(Get(entry, "source")) THEN Trim(Get(entry, "source").v) ELSE ""
        preview == extractCatalogPreview(entry)
        description ==
            IF IsNonBlankString(Get(entry, "description"))
            THEN JStr(Trim(Get(entry, "description").v))
            ELSE Undefined
        author == extractCatalogAuthor(entry)
    IN  IF name = "" \/ source = "" THEN <<>>
        ELSE << Collection(CollectionId(source, index), name, source, description, author,
                           IF preview # Undefined THEN JStr(resolveCatalogAssetUrl(preview.v))
                           ELSE Undefined) >>

parseCatalogCollections(rawCatalog) ==
    LET catalogEntries == extractCatalogEntries(rawCatalog)
    IN  IF Len(catalogEntries) = 0 THEN <<>>
        ELSE Flatten([i \in 1..Len(catalogEntries) |-> ParseCatalogEntry(catalogEntries[i], i - 1)])

\* id: `${rawId}-${index}`
CatalogItemId_RawOnly(rawId, index) == rawId
CatalogItemId(rawId, index) == rawId \o "-" \o NumToString(index)

\* toCatalogLibraryItems: the items shown for selection
ToCatalogLibraryItem(entry, index) ==
    LET rawId == IF IsNonBlankString(Get(entry, "id")) THEN Trim(Get(entry, "id").v)
                 ELSE "item-" \o NumToString(index + 1)
        rawName == IF IsNonBlankString(Get(entry, "name")) THEN Trim(Get(entry, "name").v)
                   ELSE "Figura " \o NumToString(index + 1)
    IN  [id |-> CatalogItemId(rawId, index), name |-> rawName,
         elements |-> extractItemElements(entry), raw |-> entry]

toCatalogLibraryItems(libraryItems) ==
    [i \in 1..Len(libraryItems) |-> ToCatalogLibraryItem(libraryItems[i], i - 1)]

(***************************************************************************)
(* Input documents of the text pipeline                                    *)
(***************************************************************************)
MaxEntries == 2     \* longest entry array drawn
MaxNest == 7        \* deepest wrapping drawn
MaxClock == 1       \* Date.now() values drawn

ElRect ==
    JObj(<<Pair("type", JStr("rectangle")), Pair("x", JNum(0)), Pair("y", JNum(0)),
           Pair("width", JNum(10)), Pair("height", JNum(10))>>)
ElEllipse == JObj(<<Pair("type", JStr("ellipse")), Pair("x", JNum(3))>>)

EntryPool ==
    { JObj(<<Pair("elements", JArr(<<ElRect>>))>>),
      JObj(<<Pair("id", JStr("a")), Pair("name", JStr(" Casa ")),
             Pair("elements", JArr(<<ElRect, ElEllipse>>))>>),
      JObj(<<Pair("id", JStr(" a ")), Pair("data", JObj(<<Pair("elements", JArr(<<ElEllipse>>))>>))>>),
      JObj(<<Pair("id", JStr("  ")), Pair("status", JStr("draft")), Pair("created", JNum(5)),
             Pair("elements", JArr(<<ElRect>>))>>),
      JObj(<<Pair("id", JNum(7)), Pair("elements", JArr(<<>>)),
             Pair("data", JObj(<<Pair("elements", JArr(<<ElRect>>))>>))>>),
      JObj(<<Pair("id", JStr("item-1")), Pair("elements", JArr(<<ElEllipse>>))>>),
      JObj(<<Pair("elements", JArr(<<>>))>>),
      JObj(<<Pair("elements", JArr(<<JNum(1), JStr("s")>>))>>),
      JObj(<<Pair("id", JStr("b")), Pair("name", JStr("x"))>>),
      JArr(<<ElRect, ElEllipse>>),
      JNum(5) }

EntryArrays == UNION { [1..n -> EntryPool] : n \in 0..MaxEntries }

WrapKinds == {"array", "libraryItems", "foo"}

Wrap(kind, value) ==
    IF kind = "array" THEN JArr(<<value>>) ELSE JObj(<<Pair(kind, value)>>)

RECURSIVE Nest(_, _, _)
Nest(n, kind, value) == IF n = 0 THEN value ELSE Wrap(kind, Nest(n - 1, kind, value))

\* A second, competing array beside the first
Rivals ==
    { <<JObj(<<Pair("id", JStr("r1")), Pair("elements", JArr(<<ElRect>>))>>)>>,
      <<JObj(<<Pair("id", JStr("r1")), Pair("elements", JArr(<<ElRect>>))>>),
        JObj(<<Pair("elements", JArr(<<ElEllipse>>))>>)>> }

\* The library bodies of the scenarios, and a longer entry list
SampleDocuments ==
    { JObj(<<Pair("libraryItems", JArr(<<JObj(<<Pair("elements", JArr(<<ElRect>>))>>)>>))>>),
      JArr(<<ElRect, ElEllipse>>),
      JArr(<<JObj(<<Pair("elements", JArr(<<ElRect>>))>>),
             JObj(<<Pair("id", JStr("a")), Pair("elements", JArr(<<ElRect>>))>>),
             JObj(<<Pair("name", JStr("x"))>>),
             JObj(<<Pair("id", JStr(" a ")), Pair("elements", JArr(<<ElEllipse>>))>>),
             JObj(<<Pair("id", JStr("")), Pair("data", JObj(<<Pair("elements", JArr(<<ElRect>>))>>))>>)>>) }

Documents ==
    { Nest(n, kind, JArr(entries)) : n \in 0..MaxNest, kind \in WrapKinds, entries \in EntryArrays }
    \cup { JObj(<<Pair("version", JNum(2)), Pair("meta", JObj(<<Pair("items", JArr(rival))>>)),
                  Pair("library", JArr(entries))>>) : rival \in Rivals, entries \in EntryArrays }
    \cup { JNull, JNum(1), JStr("x"), JObj(<<>>), JObj(<<Pair("elements", JArr(<<ElRect>>))>>) }
    \cup SampleDocuments

Texts ==
    { Text(bom, json) : bom \in BOOLEAN, json \in {NotJson} }
    \cup { Text(FALSE, json) : json \in Documents }
    \cup { Text(TRUE, JArr(<<JObj(<<Pair("elements", JArr(<<ElRect>>))>>)>>)) }

(***************************************************************************)
(* Preview renderer: the bounds of an item's elements.                     *)
(*                                                                         *)
(* A JavaScript number is JNum(n) for an integer n, POSITIVE_INFINITY,     *)
(* NEGATIVE_INFINITY or NaN.  The coordinates of the model are integers    *)
(* far below 2^53, where the sums and differences of IEEE doubles are      *)
(* exact and cannot overflow to an infinity.                               *)
(***************************************************************************)
POSITIVE_INFINITY == [t |-> "inf", sign |-> 1]
NEGATIVE_INFINITY == [t |-> "inf", sign |-> -1]
NaN == [t |-> "nan"]

\* Math.min(a, b) and Math.max(a, b) where neither is NaN
MathMin(a, b) ==
    IF a.t = "inf" THEN (IF a.sign > 0 THEN b ELSE a)
    ELSE IF b.t = "inf" THEN (IF b.sign > 0 THEN a ELSE b)
    ELSE IF b.v < a.v THEN b ELSE a

MathMax(a, b) ==
    IF a.t = "inf" THEN (IF a.sign > 0 THEN a ELSE b)
    ELSE IF b.t = "inf" THEN (IF b.sign > 0 THEN b ELSE a)
    ELSE IF b.v > a.v THEN b ELSE a

\* a + b of two finite numbers
Plus(a, b) == JNum(a.v + b.v)

\* toFiniteNumber(value, fallback); the default fallback is 0
toFiniteNumber(value, fallback) == IF IsFiniteNumber(value) THEN value ELSE fallback

\* extractAbsolutePoints(element): the well-formed points of element.points,
\* translated by the element's position
extractAbsolutePoints(element) ==
    IF ~IsArray(Get(element, "points")) THEN <<>>
    ELSE
        LET points == Get(element, "points").v
            baseX == toFiniteNumber(Get(element, "x"), JNum(0))
            baseY == toFiniteNumber(Get(element, "y"), JNum(0))
            absolute(point) ==
                IF ~IsArray(point) \/ Len(point.v) < 2 THEN <<>>
                ELSE
                    LET x == toFiniteNumber(point.v[1], NaN)
                        y == toFiniteNumber(point.v[2], NaN)
                    IN  IF ~IsFiniteNumber(x) \/ ~IsFiniteNumber(y) THEN <<>>
                        ELSE <<[x |-> Plus(baseX, x), y |-> Plus(baseY, y)]>>
        IN  Flatten([i \in 1..Len(points) |-> absolute(points[i])])

\* let minX = +Infinity, minY = +Infinity, maxX = -Infinity, maxY = -Infinity
UnboundedBox ==
    [minX |-> POSITIVE_INFINITY, minY |-> POSITIVE_INFINITY,
     maxX |-> NEGATIVE_INFINITY, maxY |-> NEGATIVE_INFINITY]

expandBounds(box, x, y) ==
    [minX |-> MathMin(box.minX, x), minY |-> MathMin(box.minY, y),
     maxX |-> MathMax(box.maxX, x), maxY |-> MathMax(box.maxY, y)]

\* points.forEach((point) => expandBounds(point.x, point.y))
RECURSIVE ExpandByPoints(_, _)
ExpandByPoints(box, points) ==
    IF points = <<>> THEN box
    ELSE ExpandByPoints(expandBounds(box, Head(points).x, Head(points).y), Tail(points))

\* The body of elements.forEach for one element
ExpandByElement(box, element) ==
    LET x == toFiniteNumber(Get(element, "x"), JNum(0))
        y == toFiniteNumber(Get(element, "y"), JNum(0))
        width == toFiniteNumber(Get(element, "width"), JNum(0))
        height == toFiniteNumber(Get(element, "height"), JNum(0))
        corners == expandBounds(expandBounds(box, x, y), Plus(x, width), Plus(y, height))
    IN  ExpandByPoints(corners, extractAbsolutePoints(element))

RECURSIVE ExpandByElements(_, _)
ExpandByElements(box, elements) ==
    IF elements = <<>> THEN box
    ELSE ExpandByElements(ExpandByElement(box, Head(elements)), Tail(elements))

DefaultPreviewBox == [minX |-> 0, minY |-> 0, width |-> 120, height |-> 84]
padding == 12
MinPreviewWidth == 40
MinPreviewHeight == 30

\* Math.max(maxX - minX, 40): the extent of the box before padding
NormalizedExtent_Raw(extent, minimum) == extent
NormalizedExtent(extent, minimum) == IF extent > minimum THEN extent ELSE minimum

\* The test that sends computeItemPreviewBounds to the default box
NoFiniteBounds_OrSinglePoint(box) ==
    \/ ~IsFiniteNumber(box.minX) \/ ~IsFiniteNumber(box.minY)
    \/ ~IsFiniteNumber(box.maxX) \/ ~IsFiniteNumber(box.maxY)
    \/ (box.minX = box.maxX /\ box.minY = box.maxY)
NoFiniteBounds(box) ==
    \/ ~IsFiniteNumber(box.minX) \/ ~IsFiniteNumber(box.minY)
    \/ ~IsFiniteNumber(box.maxX) \/ ~IsFiniteNumber(box.maxY)

computeItemPreviewBounds(elements) ==
    LET box == ExpandByElements(UnboundedBox, elements)
    IN  IF NoFiniteBounds(box) THEN DefaultPreviewBox
        ELSE [minX |-> box.minX.v - padding,
              minY |-> box.minY.v - padding,
              width |-> NormalizedExtent(box.maxX.v - box.minX.v, MinPreviewWidth) + padding * 2,
              height |-> NormalizedExtent(box.maxY.v - box.minY.v, MinPreviewHeight) + padding * 2]

\* What the scan leaves of the elements it was given: forEach and flatMap
\* read the array and assign to nothing in it.
ElementsAfterScan_Shifted(elements) == IF elements = <<>> THEN elements ELSE Tail(elements)
ElementsAfterScan(elements) == elements

\* Element records the renderer may be given: each of x, y, width, height
\* and points may be missing, malformed or non-finite; widths and heights
\* may be negative.
MaxElements == 2

Point(x, y) == JArr(<<x, y>>)

PointLists ==
    { Undefined,
      JArr(<<Point(JNum(0), JNum(0)), Point(JNum(60), JNum(0 - 70))>>),
      JArr(<<JNum(1), JArr(<<JNum(5)>>), Point(JInf, JNum(3)), Point(JNum(0 - 80), JNum(90))>>) }

ElementSizes ==
    { [width |-> Undefined, height |-> JStr("tall")],
      [width |-> JNum(0 - 50), height |-> JNum(10)],
      [width |-> JNum(100), height |-> JNum(0 - 40)] }

WithKey(pairs, key, value) == IF value = Undefined THEN pairs ELSE Append(pairs, Pair(key, value))

PreviewElement(x, y, size, points) ==
    JObj(WithKey(WithKey(WithKey(WithKey(WithKey(<<Pair("type", JStr("line"))>>,
         "x", x), "y", y), "width", size.width), "height", size.height), "points", points))

PreviewElementPool ==
    { PreviewElement(x, y, size, points) :
        x \in {Undefined, JNum(0 - 30), JNum(20)}, y \in {JInf, JNum(5)},
        size \in ElementSizes, points \in PointLists }

\* Elements of one geometry whose type is each of the dispatched names, a
\* name the renderer does not know, another JSON value, or missing
ElementTypes ==
    { Undefined, JNum(7), JNull, JStr("rectangle"), JStr("ellipse"), JStr("diamond"),
      JStr("line"), JStr("arrow"), JStr("freedraw"), JStr("draw"), JStr("text"),
      JStr("frame"), JStr("Ellipse") }

TypedElementPool ==
    { JObj(WithKey(<<Pair("x", JNum(10)), Pair("y", JNum(5)),
                     Pair("width", JNum(30)), Pair("height", JNum(20))>>, "type", type)) :
        type \in ElementTypes }

PreviewElementSequences ==
    UNION { [1..n -> PreviewElementPool \cup TypedElementPool] : n \in 0..MaxElements }

\* const type = typeof element.type === 'string' ? element.type : 'rectangle'
ElementType(element) ==
    IF IsString(Get(element, "type")) THEN Get(element, "type").v ELSE "rectangle"

\* The types drawn as a polyline through the element's points
IsPolylineType_NoDraw(type) == type \in {"line", "arrow", "freedraw"}
IsPolylineType(type) == type \in {"line", "arrow", "freedraw", "draw"}

CornerRadius == 6

\* The SVG child drawn for one element: its tag and, for a <rect>, rx = ry
SvgShape(element) ==
    LET type == ElementType(element)
    IN  IF type = "ellipse" THEN [tag |-> "ellipse"]
        ELSE IF type = "diamond" THEN [tag |-> "polygon"]
        ELSE IF IsPolylineType(type) THEN [tag |-> "polyline"]
        ELSE IF type = "text" THEN [tag |-> "text"]
        ELSE [tag |-> "rect", rx |-> CornerRadius]

\* One render of PreviewElementsSvg: useMemo(() => computeItemPreviewBounds(elements))
\* and elements.map(...).  React may drop a memoized value and compute it again
\* on any later render.
PreviewElementsSvg ==
    /\ previewBounds' = computeItemPreviewBounds(previewElements)
    /\ previewShapes' = [i \in 1..Len(previewElements) |-> SvgShape(previewElements[i])]
    /\ previewElements' = ElementsAfterScan(previewElements)
    /\ UNCHANGED <<rawText, now, parsePc, parseResult, touchVars>>
    /\ UNCHANGED <<stateVars, envVars>>

(***************************************************************************)
(* The Dashboard component                                                 *)
(*                                                                         *)
(* A handler runs to its first await in one step, and each continuation    *)
(* runs to the end of the call in one step when what it awaits settles.    *)
(* Handlers of controls that are not mounted cannot run; the `disabled`    *)
(* attribute of a mounted control is not relied on, the handlers' own      *)
(* guards are.                                                             *)
(***************************************************************************)
MaxFetches == 3     \* fetch() calls in one behaviour
MaxPending == 2     \* calls of one handler awaiting at once
MaxCards == 2       \* catalog cards (from the first) that get used

\* A thrown value: an Error with its message, or something that is no Error
ErrorValue(message) == [isError |-> TRUE, message |-> message]
NonError == [isError |-> FALSE, message |-> ""]

\* error instanceof Error ? error.message : fallback
ErrorMessage(error, fallback) == IF error.isError THEN error.message ELSE fallback

\* What a fetch can come to: a rejection, or a response with its body
Rejected(error) == [kind |-> "rejected", error |-> error]
Response(ok, status, body) == [kind |-> "response", ok |-> ok, status |-> status, body |-> body]

CatalogBodies ==
    { NotJson,
      JArr(<<JObj(<<Pair("name", JStr("Charts")), Pair("source", JStr("charts/charts.json"))>>)>>),
      JObj(<<Pair("libraries", JArr(<<
          JObj(<<Pair("name", JStr(" A ")), Pair("source", JStr("x/a.json")),
                 Pair("preview", JObj(<<Pair("url", JStr("a.png"))>>)),
                 Pair("authors", JArr(<<JObj(<<Pair("name", JStr("ann"))>>), JStr("bob")>>))>>),
          JObj(<<Pair("name", JStr(" ")), Pair("source", JStr("y.json"))>>),
          JObj(<<Pair("name", JStr("B")), Pair("source", JStr("x/a.json")),
                 Pair("description", JStr(" d "))>>)>>))>>),
      JObj(<<Pair("items", JArr(<<JObj(<<Pair("name", JNum(5))>>)>>))>>) }

CatalogResponses ==
    { Rejected(ErrorValue("Failed to fetch")), Rejected(NonError), Response(FALSE, 404, NotJson) }
    \cup { Response(TRUE, 200, body) : body \in CatalogBodies }

LibraryBodies ==
    { Text(FALSE, NotJson),
      Text(FALSE, JObj(<<Pair("libraryItems", JArr(<<>>))>>)),
      Text(TRUE, JObj(<<Pair("libraryItems", JArr(<<JObj(<<Pair("elements", JArr(<<ElRect>>))>>)>>))>>)),
      Text(FALSE, JArr(<<JObj(<<Pair("id", JStr("a")), Pair("elements", JArr(<<ElEllipse>>))>>),
                         JObj(<<Pair("id", JStr("a")), Pair("name", JStr("Casa")),
                                Pair("data", JObj(<<Pair("elements", JArr(<<ElRect, ElEllipse>>))>>))>>)>>)) }

LibraryResponses ==
    { Rejected(ErrorValue("Failed to fetch")), Response(FALSE, 404, Text(FALSE, NotJson)) }
    \cup { Response(TRUE, 200, body) : body \in LibraryBodies }

HttpMessage(prefix, status) == prefix \o " (HTTP " \o NumToString(status) \o ")."

\* showToast: nothing is shown while the editor API is absent
Toast(message) == IF excalidrawApi = "none" THEN JNull ELSE JStr(message)

\* currentMap[collection.id]?.length
HasCachedPreview(currentMap, id) == \E e \in currentMap : e.id = id /\ Len(e.elements) > 0

\* {...currentMap, [collection.id]: elements}
WithPreview(currentMap, id, elements) ==
    {e \in currentMap : e.id # id} \cup {[id |-> id, elements |-> elements]}

\* The updater of setCatalogPreviewElementsByCollectionId: the first writer wins
CachePreview_Overwrite(currentMap, id, elements) == WithPreview(currentMap, id, elements)
CachePreview(currentMap, id, elements) ==
    IF HasCachedPreview(currentMap, id) THEN currentMap ELSE WithPreview(currentMap, id, elements)

\* parsedCatalogItems.find((item) => item.elements.length > 0)
FirstWithElements(items) ==
    LET found == SelectSeq(items, LAMBDA item : Len(item.elements) > 0)
    IN  IF Len(found) > 0 THEN <<found[1]>> ELSE <<>>

\* The cards in use
Cards == 1..(IF Len(catalogCollections) < MaxCards THEN Len(catalogCollections) ELSE MaxCards)

\* The catalog list is mounted / the selection view is mounted
CatalogListMounted == isCatalogOpen /\ catalogSelection = JNull
SelectionMounted == isCatalogOpen /\ catalogSelection # JNull

\* A handler run from its invocation to its first await (or its end), and the
\* continuation of a call resumed with what it awaited
Call(fn, did) ==
    [fn |-> fn, did |-> did, resumed |-> FALSE, arg |-> JNull, toast |-> JNull,
     host |-> JNull, hostCalls |-> <<>>, response |-> JNull]
Settled(fn, response) ==
    [Call(fn, "settled") EXCEPT !.resumed = TRUE, !.response = response]

InitDashboard ==
    /\ isCatalogOpen = FALSE
    /\ catalogLoadState = "idle"
    /\ catalogCollections = FALLBACK_CATALOG
    /\ catalogPreviewElementsByCollectionId = {}
    /\ catalogError = JNull
    /\ collectionBeingAddedId = JNull
    /\ catalogSelection = JNull
    /\ catalogPreviewLoadingRef = {}
    /\ excalidrawApi = "none"
    /\ catalogFetches = 0
    /\ hydrations = {}
    /\ guardedCalls = <<>>
    /\ fetchesIssued = 0
    /\ lastCall = Call("Dashboard", "mounted")

\* excalidrawAPI={(api) => ...}: the editor hands over its API, with or
\* without updateLibrary
ExcalidrawReady ==
    /\ excalidrawApi = "none"
    /\ excalidrawApi' \in {"updateLibrary", "updateScene"}
    /\ lastCall' = Call("excalidrawAPI", excalidrawApi')
    /\ UNCHANGED <<isCatalogOpen, catalogLoadState, catalogCollections,
                   catalogPreviewElementsByCollectionId, catalogError, collectionBeingAddedId,
                   catalogSelection, catalogPreviewLoadingRef>>
    /\ UNCHANGED <<catalogFetches, hydrations, guardedCalls, fetchesIssued>>
    /\ UNCHANGED parseVars

(***************************************************************************)
(* Catalog loader                                                          *)
(***************************************************************************)
\* if (catalogLoadState === 'loading') return
LoadingGuard_Off == FALSE
LoadingGuard == catalogLoadState = "loading"

\* loadCatalogCollections up to its await of fetch
LoadCatalogCollections ==
    IF LoadingGuard
    THEN UNCHANGED <<catalogLoadState, catalogError, catalogFetches, fetchesIssued>>
    ELSE /\ fetchesIssued < MaxFetches
         /\ catalogLoadState' = "loading"
         /\ catalogError' = JNull
         /\ catalogFetches' = catalogFetches + 1
         /\ fetchesIssued' = fetchesIssued + 1

handleOpenCatalog ==
    /\ isCatalogOpen' = TRUE
    /\ IF catalogLoadState = "idle" THEN LoadCatalogCollections
       ELSE UNCHANGED <<catalogLoadState, catalogError, catalogFetches, fetchesIssued>>
    /\ lastCall' = Call("handleOpenCatalog",
                        IF catalogFetches' > catalogFetches THEN "fetch" ELSE "none")
    /\ UNCHANGED <<catalogCollections, catalogPreviewElementsByCollectionId,
                   collectionBeingAddedId, catalogSelection, catalogPreviewLoadingRef,
                   excalidrawApi>>
    /\ UNCHANGED <<hydrations, guardedCalls>>
    /\ UNCHANGED parseVars

handleLibraryExternalLink ==
    /\ isCatalogOpen' = TRUE
    /\ IF catalogLoadState = "idle" THEN LoadCatalogCollections
       ELSE UNCHANGED <<catalogLoadState, catalogError, catalogFetches, fetchesIssued>>
    /\ lastCall' = [Call("handleLibraryExternalLink",
                         IF catalogFetches' > catalogFetches THEN "fetch" ELSE "none")
                    EXCEPT !.toast = Toast("Usa el boton Catalogo para agregar colecciones.")]
    /\ UNCHANGED <<catalogCollections, catalogPreviewElementsByCollectionId,
                   collectionBeingAddedId, catalogSelection, catalogPreviewLoadingRef,
                   excalidrawApi>>
    /\ UNCHANGED <<hydrations, guardedCalls>>
    /\ UNCHANGED parseVars

\* The "Actualizar catalogo" button: loadCatalogCollections()
RefreshCatalog ==
    /\ CatalogListMounted
    /\ LoadCatalogCollections
    /\ lastCall' = Call("loadCatalogCollections",
                        IF catalogFetches' > catalogFetches THEN "fetch" ELSE "returned")
    /\ UNCHANGED <<isCatalogOpen, catalogCollections, catalogPreviewElementsByCollectionId,
                   collectionBeingAddedId, catalogSelection, catalogPreviewLoadingRef,
                   excalidrawApi>>
    /\ UNCHANGED <<hydrations, guardedCalls>>
    /\ UNCHANGED parseVars

\* if (parsedCollections.length === 0) throw
NoValidCollections_Never(parsedCollections) == FALSE
NoValidCollections(parsedCollections) == Len(parsedCollections) = 0

\* What the try block of loadCatalogCollections comes to for a fetch outcome:
\* the parsed collections, or the message of what was thrown
LoadOutcome(response) ==
    IF response.kind = "rejected"
    THEN [ok |-> FALSE, message |-> ErrorMessage(response.error, "No se pudo cargar el catalogo.")]
    ELSE IF ~response.ok
    THEN [ok |-> FALSE, message |-> HttpMessage("No se pudo cargar el catalogo", response.status)]
    ELSE IF response.body = NotJson
    THEN [ok |-> FALSE, message |-> ErrorMessage(ErrorValue("Unexpected token"), "No se pudo cargar el catalogo.")]
    ELSE IF NoValidCollections(parseCatalogCollections(response.body))
    THEN [ok |-> FALSE, message |-> "El catalogo recibido no tiene colecciones validas."]
    ELSE [ok |-> TRUE, collections |-> parseCatalogCollections(response.body)]

\* setCatalogCollections(FALLBACK_CATALOG) in the catch block
CatalogAfterFailure_Kept == catalogCollections
CatalogAfterFailure == FALLBACK_CATALOG

\* The fetch of a loadCatalogCollections call settles and the call runs to its end
CatalogFetchSettles ==
    /\ catalogFetches > 0
    /\ \E response \in CatalogResponses :
        LET out == LoadOutcome(response)
        IN  /\ IF out.ok
               THEN /\ catalogCollections' = out.collections
                    /\ catalogLoadState' = "ready"
                    /\ UNCHANGED catalogError
               ELSE /\ catalogLoadState' = "error"
                    /\ catalogError' = JStr(out.message)
                    /\ catalogCollections' = CatalogAfterFailure
            /\ lastCall' = Settled("loadCatalogCollections", response)
    /\ catalogFetches' = catalogFetches - 1
    /\ UNCHANGED <<isCatalogOpen, catalogPreviewElementsByCollectionId, collectionBeingAddedId,
                   catalogSelection, catalogPreviewLoadingRef, excalidrawApi>>
    /\ UNCHANGED <<hydrations, guardedCalls, fetchesIssued>>
    /\ UNCHANGED parseVars

(***************************************************************************)
(* Preview hydration cache                                                 *)
(***************************************************************************)
\* if (inFlightRequests.has(collection.id)) return
HydrationInFlight_Off(id) == FALSE
HydrationInFlight(id) == id \in catalogPreviewLoadingRef

\* The suspended ensureCatalogCollectionPreview calls, a bag of collection ids
PendingHydrations(id) ==
    IF \E h \in hydrations : h.id = id THEN (CHOOSE h \in hydrations : h.id = id).n ELSE 0
HydrationsWith(id, n) ==
    {h \in hydrations : h.id # id} \cup (IF n > 0 THEN {[id |-> id, n |-> n]} ELSE {})

\* if (catalogPreviewElementsByCollectionId[collection.id]?.length) return
PreviewCached_Off(id) == FALSE
PreviewCached(id) == HasCachedPreview(catalogPreviewElementsByCollectionId, id)

\* The effect of a CatalogPreview card: ensureCatalogCollectionPreview(collection)
\* up to its await of fetch
ensureCatalogCollectionPreview(card) ==
    LET collection == catalogCollections[card]
    IN  /\ CatalogListMounted
        /\ IF PreviewCached(collection.id)
           THEN /\ lastCall' = [Call("ensureCatalogCollectionPreview", "cached") EXCEPT !.arg = collection.id]
                /\ UNCHANGED <<catalogPreviewLoadingRef, hydrations, fetchesIssued>>
           ELSE IF HydrationInFlight(collection.id)
           THEN /\ lastCall' = [Call("ensureCatalogCollectionPreview", "returned") EXCEPT !.arg = collection.id]
                /\ UNCHANGED <<catalogPreviewLoadingRef, hydrations, fetchesIssued>>
           ELSE /\ fetchesIssued < MaxFetches
                /\ catalogPreviewLoadingRef' = catalogPreviewLoadingRef \cup {collection.id}
                /\ hydrations' = HydrationsWith(collection.id, PendingHydrations(collection.id) + 1)
                /\ fetchesIssued' = fetchesIssued + 1
                /\ lastCall' = [Call("ensureCatalogCollectionPreview", "fetch") EXCEPT !.arg = collection.id]
        /\ UNCHANGED <<isCatalogOpen, catalogLoadState, catalogCollections,
                       catalogPreviewElementsByCollectionId, catalogError, collectionBeingAddedId,
                       catalogSelection, excalidrawApi>>
        /\ UNCHANGED <<catalogFetches, guardedCalls>>
        /\ UNCHANGED parseVars

\* What the body of a collection comes to: the catalog items or the message thrown
LibraryOutcome(response, httpPrefix, fallback) ==
    IF response.kind = "rejected"
    THEN [ok |-> FALSE, message |-> ErrorMessage(response.error, fallback)]
    ELSE IF ~response.ok
    THEN [ok |-> FALSE, message |-> HttpMessage(httpPrefix, response.status)]
    ELSE LET parsed == parseLibraryItemsFromText(response.body)
         IN  IF parsed.err # "" THEN [ok |-> FALSE, message |-> parsed.err]
             ELSE [ok |-> TRUE, items |-> toCatalogLibraryItems(parsed.items)]

\* finally { inFlightRequests.delete(collection.id) }, whether the try block
\* came to its end (ok) or not
InFlightAfter_SuccessOnly(inFlight, id, ok) == IF ok THEN inFlight \ {id} ELSE inFlight
InFlightAfter(inFlight, id, ok) == inFlight \ {id}

\* catch { /* ignore preview hydration errors */ }: nothing is shown
HydrationFailureToast_Shown(out) == Toast(out.message)
HydrationFailureToast(out) == JNull

\* The fetch of an ensureCatalogCollectionPreview call settles; errors are swallowed
HydrationSettles(id) ==
    /\ PendingHydrations(id) > 0
    /\ \E response \in LibraryResponses :
        LET out == LibraryOutcome(response, "", "")
            previewItem == IF out.ok THEN FirstWithElements(out.items) ELSE <<>>
        IN  /\ catalogPreviewElementsByCollectionId' =
                  IF Len(previewItem) > 0
                  THEN CachePreview(catalogPreviewElementsByCollectionId, id, previewItem[1].elements)
                  ELSE catalogPreviewElementsByCollectionId
            /\ lastCall' = [Settled("ensureCatalogCollectionPreview", response) EXCEPT
                               !.arg = id,
                               !.toast = IF out.ok THEN JNull ELSE HydrationFailureToast(out)]
            /\ catalogPreviewLoadingRef' = InFlightAfter(catalogPreviewLoadingRef, id, out.ok)
    /\ hydrations' = HydrationsWith(id, PendingHydrations(id) - 1)
    /\ UNCHANGED <<isCatalogOpen, catalogLoadState, catalogCollections, catalogError,
                   collectionBeingAddedId, catalogSelection, excalidrawApi>>
    /\ UNCHANGED <<catalogFetches, guardedCalls, fetchesIssued>>
    /\ UNCHANGED parseVars

(***************************************************************************)
(* Selection and import                                                    *)
(***************************************************************************)
\* if (collectionBeingAddedId) return
CloseBlocked_Off == FALSE
CloseBlocked == collectionBeingAddedId # JNull

handleCloseCatalog ==
    /\ isCatalogOpen
    /\ IF CloseBlocked
       THEN /\ UNCHANGED <<catalogSelection, isCatalogOpen>>
            /\ lastCall' = Call("handleCloseCatalog", "returned")
       ELSE /\ catalogSelection' = JNull
            /\ isCatalogOpen' = FALSE
            /\ lastCall' = Call("handleCloseCatalog", "closed")
    /\ UNCHANGED <<catalogLoadState, catalogCollections, catalogPreviewElementsByCollectionId,
                   catalogError, collectionBeingAddedId, catalogPreviewLoadingRef, excalidrawApi>>
    /\ UNCHANGED <<catalogFetches, hydrations, guardedCalls, fetchesIssued>>
    /\ UNCHANGED parseVars

\* if (collectionBeingAddedId) return
PreviewBlocked_Off == FALSE
PreviewBlocked == collectionBeingAddedId # JNull

\* The "Ver figuras" button of a card: handlePreviewCollection up to its await of fetch
handlePreviewCollection(card) ==
    LET collection == catalogCollections[card]
    IN  /\ CatalogListMounted
        /\ IF PreviewBlocked
           THEN /\ lastCall' = Call("handlePreviewCollection", "returned")
                /\ UNCHANGED <<collectionBeingAddedId, guardedCalls, fetchesIssued>>
           ELSE /\ fetchesIssued < MaxFetches
                /\ collectionBeingAddedId' = JStr(collection.id)
                /\ guardedCalls' = Append(guardedCalls, [kind |-> "preview", collection |-> collection])
                /\ fetchesIssued' = fetchesIssued + 1
                /\ lastCall' = Call("handlePreviewCollection", "fetch")
        /\ UNCHANGED <<isCatalogOpen, catalogLoadState, catalogCollections,
                       catalogPreviewElementsByCollectionId, catalogError, catalogSelection,
                       catalogPreviewLoadingRef, excalidrawApi>>
        /\ UNCHANGED <<catalogFetches, hydrations>>
        /\ UNCHANGED parseVars

RemoveAt(s, k) == SubSeq(s, 1, k - 1) \o SubSeq(s, k + 1, Len(s))

\* finally { setCollectionBeingAddedId(null) } of handlePreviewCollection and of
\* handleImportCatalogSelection: the marker after the call for collection id has
\* left its try block, normally or through the catch block
MarkerAfterSettle_SuccessOnly(id, succeeded) == IF succeeded THEN JNull ELSE JStr(id)
MarkerAfterSettle(id, succeeded) == JNull

\* The fetch of a handlePreviewCollection call settles and the call runs to its end
PreviewFetchSettles(k) ==
    /\ guardedCalls[k].kind = "preview"
    /\ \E response \in LibraryResponses :
        LET collection == guardedCalls[k].collection
            out == LibraryOutcome(response, "No se pudo descargar la coleccion",
                                  "No se pudo cargar la previsualizacion de la coleccion.")
            firstPreviewItem == IF out.ok THEN FirstWithElements(out.items) ELSE <<>>
        IN  /\ IF out.ok /\ Len(out.items) > 0
               THEN /\ catalogPreviewElementsByCollectionId' =
                         IF Len(firstPreviewItem) > 0
                         THEN CachePreview(catalogPreviewElementsByCollectionId, collection.id,
                                           firstPreviewItem[1].elements)
                         ELSE catalogPreviewElementsByCollectionId
                    /\ catalogSelection' =
                         [collection |-> collection, items |-> out.items, selectedItemIds |-> <<>>]
                    /\ lastCall' = Settled("handlePreviewCollection", response)
               ELSE /\ lastCall' =
                         [Settled("handlePreviewCollection", response) EXCEPT !.toast =
                             Toast(IF out.ok
                                   THEN "La coleccion no contiene figuras compatibles para previsualizar."
                                   ELSE out.message)]
                    /\ UNCHANGED <<catalogPreviewElementsByCollectionId, catalogSelection>>
            /\ collectionBeingAddedId' =
                 MarkerAfterSettle(collection.id, out.ok /\ Len(out.items) > 0)
    /\ guardedCalls' = RemoveAt(guardedCalls, k)
    /\ UNCHANGED <<isCatalogOpen, catalogLoadState, catalogCollections, catalogError,
                   catalogPreviewLoadingRef, excalidrawApi>>
    /\ UNCHANGED <<catalogFetches, hydrations, fetchesIssued>>
    /\ UNCHANGED parseVars

handleCloseCatalogSelection ==
    /\ SelectionMounted
    /\ IF CloseBlocked
       THEN /\ UNCHANGED catalogSelection
            /\ lastCall' = Call("handleCloseCatalogSelection", "returned")
       ELSE /\ catalogSelection' = JNull
            /\ lastCall' = Call("handleCloseCatalogSelection", "closed")
    /\ UNCHANGED <<isCatalogOpen, catalogLoadState, catalogCollections,
                   catalogPreviewElementsByCollectionId, catalogError, collectionBeingAddedId,
                   catalogPreviewLoadingRef, excalidrawApi>>
    /\ UNCHANGED <<catalogFetches, hydrations, guardedCalls, fetchesIssued>>
    /\ UNCHANGED parseVars

Includes(s, x) == \E i \in 1..Len(s) : s[i] = x

\* The updaters of setCatalogSelection
ToggledSelection_DropsItem(current, itemId) ==
    IF current = JNull THEN current
    ELSE [current EXCEPT !.items = SelectSeq(@, LAMBDA item : item.id # itemId)]
ToggledSelection(current, itemId) ==
    IF current = JNull THEN current
    ELSE [current EXCEPT !.selectedItemIds =
            IF Includes(@, itemId) THEN SelectSeq(@, LAMBDA selectedId : selectedId # itemId)
            ELSE Append(@, itemId)]

AllSelected_Appended(current) ==
    IF current = JNull THEN current
    ELSE [current EXCEPT !.selectedItemIds =
            @ \o [i \in 1..Len(current.items) |-> current.items[i].id]]
AllSelected(current) ==
    IF current = JNull THEN current
    ELSE [current EXCEPT !.selectedItemIds = [i \in 1..Len(current.items) |-> current.items[i].id]]

NoneSelected(current) ==
    IF current = JNull THEN current ELSE [current EXCEPT !.selectedItemIds = <<>>]

SelectionStep(fn, selection) ==
    /\ SelectionMounted
    /\ catalogSelection' = selection
    /\ lastCall' = Call(fn, "updated")
    /\ UNCHANGED <<isCatalogOpen, catalogLoadState, catalogCollections,
                   catalogPreviewElementsByCollectionId, catalogError, collectionBeingAddedId,
                   catalogPreviewLoadingRef, excalidrawApi>>
    /\ UNCHANGED <<catalogFetches, hydrations, guardedCalls, fetchesIssued>>
    /\ UNCHANGED parseVars

\* The cards of the selection dialog, one per listed item
ListedItems == IF catalogSelection = JNull THEN {} ELSE 1..Len(catalogSelection.items)

handleToggleCatalogItemSelection(i) ==
    /\ i \in ListedItems
    /\ SelectionStep("handleToggleCatalogItemSelection",
                     ToggledSelection(catalogSelection, catalogSelection.items[i].id))

handleSelectAllCatalogItems ==
    SelectionStep("handleSelectAllCatalogItems", AllSelected(catalogSelection))

handleClearCatalogSelection ==
    SelectionStep("handleClearCatalogSelection", NoneSelected(catalogSelection))

\* if (!catalogSelection || collectionBeingAddedId) return
ImportBlocked_Off == FALSE
ImportBlocked == catalogSelection = JNull \/ collectionBeingAddedId # JNull

ItemsToImport(mode) ==
    IF mode = "all" THEN catalogSelection.items
    ELSE SelectSeq(catalogSelection.items,
                   LAMBDA item : Includes(catalogSelection.selectedItemIds, item.id))

\* if (itemsToImport.length === 0)
NothingToImport_Never(itemsToImport) == FALSE
NothingToImport(itemsToImport) == Len(itemsToImport) = 0

\* A run of handleImportCatalogSelection(mode) from its invocation
ImportCall(mode, did) == [Call("handleImportCatalogSelection", did) EXCEPT !.arg = JStr(mode)]

EDITOR_NOT_READY_MESSAGE == "El editor aun no esta listo."

\* importLibraryItems(libraryItems): the error it throws before any call, or
\* JNull, and the calls it makes on the host, in order
importLibraryItems_FallsThrough(libraryItems) ==
    IF excalidrawApi = "none"
    THEN [threw |-> JStr(EDITOR_NOT_READY_MESSAGE), calls |-> <<>>]
    ELSE IF excalidrawApi = "updateLibrary"
    THEN [threw |-> JNull,
          calls |-> <<[fn |-> "updateLibrary", libraryItems |-> libraryItems, merge |-> TRUE],
                      [fn |-> "updateScene", libraryItems |-> libraryItems, merge |-> FALSE]>>]
    ELSE [threw |-> JNull,
          calls |-> <<[fn |-> "updateScene", libraryItems |-> libraryItems, merge |-> FALSE]>>]
importLibraryItems(libraryItems) ==
    IF excalidrawApi = "none"
    THEN [threw |-> JStr(EDITOR_NOT_READY_MESSAGE), calls |-> <<>>]
    ELSE IF excalidrawApi = "updateLibrary"
    THEN [threw |-> JNull,
          calls |-> <<[fn |-> "updateLibrary", libraryItems |-> libraryItems, merge |-> TRUE]>>]
    ELSE [threw |-> JNull,
          calls |-> <<[fn |-> "updateScene", libraryItems |-> libraryItems, merge |-> FALSE]>>]

\* The host call importLibraryItems makes first
HostCallFor(libraryItems) == Head(importLibraryItems(libraryItems).calls)

\* What awaiting importLibraryItems comes to: it returns, or what the host threw is thrown
HostOutcomes ==
    {[kind |-> "resolved"], Rejected(ErrorValue("Library update failed")), Rejected(NonError)}

\* The catch block shows the message and does not touch the selection
SelectionAfterFailure_Cleared(current) == JNull
SelectionAfterFailure(current) == current

IMPORT_FAILED_MESSAGE == "No se pudieron agregar las figuras seleccionadas."

\* The try / catch / finally of handleImportCatalogSelection once importLibraryItems has
\* settled: the call as it stood (what it did so far), and what it comes to
ImportCompletes(call, collection, count, settled) ==
    /\ IF settled.kind = "resolved"
       THEN /\ lastCall' =
                 [call EXCEPT !.did = "imported", !.toast =
                     Toast("Coleccion agregada: " \o collection.name
                           \o " (" \o NumToString(count) \o " figuras).")]
            /\ catalogSelection' = JNull
       ELSE /\ lastCall' =
                 [call EXCEPT !.did = "failed", !.toast =
                     Toast(ErrorMessage(settled.error, IMPORT_FAILED_MESSAGE))]
            /\ catalogSelection' = SelectionAfterFailure(catalogSelection)
    /\ collectionBeingAddedId' = MarkerAfterSettle(collection.id, settled.kind = "resolved")

\* handleImportCatalogSelection.  With updateLibrary the call awaits the host's promise;
\* without an API, or with updateScene only, nothing is awaited but settled promises, and
\* the call runs to its end before any other event
handleImportCatalogSelection(mode) ==
    /\ SelectionMounted
    /\ IF ImportBlocked
       THEN /\ lastCall' = ImportCall(mode, "returned")
            /\ UNCHANGED <<collectionBeingAddedId, guardedCalls, catalogSelection>>
       ELSE IF NothingToImport(ItemsToImport(mode))
       THEN /\ lastCall' = [ImportCall(mode, "rejected") EXCEPT !.toast =
                               Toast("Selecciona al menos una figura para importar.")]
            /\ UNCHANGED <<collectionBeingAddedId, guardedCalls, catalogSelection>>
       ELSE LET count == Len(ItemsToImport(mode))
                out == importLibraryItems([i \in 1..count |-> ItemsToImport(mode)[i].raw])
                hostCall == HostCallFor([i \in 1..count |-> ItemsToImport(mode)[i].raw])
                call == [ImportCall(mode, "importing") EXCEPT !.hostCalls = out.calls]
            IN  IF out.threw # JNull
                THEN /\ ImportCompletes(call, catalogSelection.collection, count,
                                        Rejected(ErrorValue(out.threw.v)))
                     /\ UNCHANGED guardedCalls
                ELSE IF excalidrawApi = "updateScene"
                THEN /\ \E settled \in HostOutcomes :
                            ImportCompletes([call EXCEPT !.host = hostCall],
                                            catalogSelection.collection, count, settled)
                     /\ UNCHANGED guardedCalls
                ELSE /\ Len(guardedCalls) < MaxPending
                     /\ collectionBeingAddedId' = JStr(catalogSelection.collection.id)
                     /\ guardedCalls' = Append(guardedCalls,
                            [kind |-> "import", collection |-> catalogSelection.collection,
                             count |-> count])
                     /\ lastCall' = [call EXCEPT !.host = hostCall]
                     /\ UNCHANGED catalogSelection
    /\ UNCHANGED <<isCatalogOpen, catalogLoadState, catalogCollections,
                   catalogPreviewElementsByCollectionId, catalogError,
                   catalogPreviewLoadingRef, excalidrawApi>>
    /\ UNCHANGED <<catalogFetches, hydrations, fetchesIssued>>
    /\ UNCHANGED parseVars

\* updateLibrary settles and handleImportCatalogSelection runs to its end
ImportSettles(k) ==
    /\ guardedCalls[k].kind = "import"
    /\ \E settled \in HostOutcomes :
        ImportCompletes(Settled("handleImportCatalogSelection", settled),
                        guardedCalls[k].collection, guardedCalls[k].count, settled)
    /\ guardedCalls' = RemoveAt(guardedCalls, k)
    /\ UNCHANGED <<isCatalogOpen, catalogLoadState, catalogCollections,
                   catalogPreviewElementsByCollectionId, catalogError, catalogPreviewLoadingRef,
                   excalidrawApi>>
    /\ UNCHANGED <<catalogFetches, hydrations, fetchesIssued>>
    /\ UNCHANGED parseVars

(***************************************************************************)
(* Import from a local file.  A file import touches no state of the        *)
(* component: it reads, parses and calls the host.  parsePc is its          *)
(* position ("idle", "reading" while the FileReader reads, "importing"      *)
(* while updateLibrary is awaited) and parseResult holds the parsed items   *)
(* during the await.  One file import is followed at a time.                *)
(***************************************************************************)
FILE_READ_MESSAGE == "No se pudo leer el archivo."
FILE_IMPORT_FAILED_MESSAGE == "No se pudo importar la biblioteca desde archivo."

\* `Biblioteca importada (${totalImported} elementos).`
FileImportedMessage(totalImported) ==
    "Biblioteca importada (" \o NumToString(totalImported) \o " elementos)."

\* What the FileReader comes to: onerror, or onload with the text of the file
FileReadError == [kind |-> "error"]
FileLoaded(text) == [kind |-> "load", text |-> text]
FileBodies ==
    { Text(FALSE, NotJson),
      Text(FALSE, JObj(<<Pair("libraryItems", JArr(<<>>))>>)),
      Text(TRUE, JObj(<<Pair("libraryItems", JArr(<<JObj(<<Pair("elements", JArr(<<ElRect>>))>>)>>))>>)) }
FileResults == {FileReadError} \cup {FileLoaded(body) : body \in FileBodies}

NoParseResult == [err |-> "", items |-> <<>>, candidates |-> <<>>]

\* The change handler of the file input: without a file it returns, with one it
\* starts the FileReader
\* if (!selectedFile) return: the only condition on which the handler stops
NoFileToRead_OrImporting(hasFile) == ~hasFile \/ collectionBeingAddedId # JNull
NoFileToRead(hasFile) == ~hasFile

\* A run of handleFileSelected from its invocation, with or without a file
FileCall(hasFile, did) ==
    [Call("handleFileSelected", did) EXCEPT !.arg = IF hasFile THEN JStr("file") ELSE JNull]

handleFileSelected(hasFile) ==
    /\ parsePc = "idle"
    /\ IF ~NoFileToRead(hasFile)
       THEN /\ parsePc' = "reading"
            /\ lastCall' = FileCall(hasFile, "reading")
       ELSE /\ UNCHANGED parsePc
            /\ lastCall' = FileCall(hasFile, "returned")
    /\ UNCHANGED <<rawText, now, parseResult, svgVars, touchVars>>
    /\ UNCHANGED stateVars
    /\ UNCHANGED <<catalogFetches, hydrations, guardedCalls, fetchesIssued>>

\* A thrown parse error skips the host call
SkipsHostCall_Never(parsed) == FALSE
SkipsHostCall(parsed) == parsed.err # ""

\* The try / catch around importLibraryFromText once importLibraryItems has settled
FileImportCompletes(call, totalImported, settled) ==
    /\ lastCall' =
         IF settled.kind = "resolved"
         THEN [call EXCEPT !.did = "imported", !.toast = Toast(FileImportedMessage(totalImported))]
         ELSE [call EXCEPT !.did = "failed", !.toast =
                  Toast(ErrorMessage(settled.error, FILE_IMPORT_FAILED_MESSAGE))]
    /\ parsePc' = "idle"
    /\ parseResult' = NoParseResult

\* onerror / onload of the FileReader; onload runs importLibraryFromText up to
\* its await of updateLibrary, or to its end where nothing pending is awaited.
\* (readAsText always yields a string, so the typeof branch of onload is not taken.)
FileReaderSettles ==
    /\ parsePc = "reading"
    /\ \E result \in FileResults :
        LET call == Settled("handleFileSelected", result)
        IN  IF result.kind = "error"
            THEN /\ lastCall' = [call EXCEPT !.did = "unreadable", !.toast = Toast(FILE_READ_MESSAGE)]
                 /\ parsePc' = "idle"
                 /\ UNCHANGED parseResult
            ELSE LET parsed == parseLibraryItemsFromText(result.text)
                     hostCall == HostCallFor(parsed.items)
                     out == importLibraryItems(parsed.items)
                     called == [call EXCEPT !.hostCalls = out.calls]
                 IN  IF SkipsHostCall(parsed)
                     THEN FileImportCompletes(call, 0, Rejected(ErrorValue(parsed.err)))
                     ELSE IF out.threw # JNull
                     THEN FileImportCompletes(called, Len(parsed.items),
                                              Rejected(ErrorValue(out.threw.v)))
                     ELSE IF excalidrawApi = "updateScene"
                     THEN \E settled \in HostOutcomes :
                              FileImportCompletes([called EXCEPT !.host = hostCall],
                                                  Len(parsed.items), settled)
                     ELSE /\ parsePc' = "importing"
                          /\ parseResult' = [NoParseResult EXCEPT !.items = parsed.items]
                          /\ lastCall' = [called EXCEPT !.did = "importing", !.host = hostCall]
    /\ UNCHANGED <<rawText, now, svgVars, touchVars>>
    /\ UNCHANGED stateVars
    /\ UNCHANGED <<catalogFetches, hydrations, guardedCalls, fetchesIssued>>

\* updateLibrary settles and the file import runs to its end
FileImportSettles ==
    /\ parsePc = "importing"
    /\ \E settled \in HostOutcomes :
        FileImportCompletes(Settled("importLibraryFromText", settled),
                            Len(parseResult.items), settled)
    /\ UNCHANGED <<rawText, now, svgVars, touchVars>>
    /\ UNCHANGED stateVars
    /\ UNCHANGED <<catalogFetches, hydrations, guardedCalls, fetchesIssued>>

(***************************************************************************)
(* Touch panning: while fingers are down the hand tool is active, and the  *)
(* tool that was active before comes back when the last finger is lifted.  *)
(* The effect is mounted once the editor has handed over its API and       *)
(* starts by activating freedraw, the value activeTool has from the start, *)
(* as nothing reads the tool before.  The editor calls the subscribers     *)
(* with its current activeTool, and the tool can change between two        *)
(* pointer events (the toolbar, a keyboard shortcut, the editor itself).   *)
(***************************************************************************)
MaxPointers == 2

PointerIds == 1..MaxPointers
PointerTypes == {"touch", "pen", "mouse"}
ToolTypes == {"hand", "freedraw", "selection"}
Tool(type) == [type |-> type]

InitTouch ==
    /\ touchPointerIds = {}
    /\ toolBeforeTouch = JNull
    /\ activeTool = Tool("freedraw")

\* if (!excalidrawApi) return: the subscribers exist once the API is there
TouchEffectMounted == excalidrawApi # "none"

\* A run of a pointer subscriber for an event of the given pointer type
PointerCall(fn, pointerType, did) == [Call(fn, did) EXCEPT !.arg = JStr(pointerType)]

\* if (currentTool.type === 'hand')
StillHand_Always(currentTool) == TRUE
StillHand(currentTool) == currentTool.type = "hand"

\* restoreToolAfterTouch() once the pointer set is ids: the saved tool and the
\* active tool it leaves, and what it did
restoreToolAfterTouch(ids) ==
    IF ids # {} THEN [saved |-> toolBeforeTouch, tool |-> activeTool, did |-> "tracked"]
    ELSE IF toolBeforeTouch = JNull
    THEN [saved |-> toolBeforeTouch, tool |-> activeTool, did |-> "nothing saved"]
    ELSE IF StillHand(activeTool)
    THEN [saved |-> JNull, tool |-> toolBeforeTouch, did |-> "restored"]
    ELSE [saved |-> JNull, tool |-> activeTool, did |-> "cleared"]

RestoreStep(fn, pointerType, ids) ==
    /\ touchPointerIds' = ids
    /\ toolBeforeTouch' = restoreToolAfterTouch(ids).saved
    /\ activeTool' = restoreToolAfterTouch(ids).tool
    /\ lastCall' = PointerCall(fn, pointerType, restoreToolAfterTouch(ids).did)

IgnoredPointer(fn, pointerType) ==
    /\ lastCall' = PointerCall(fn, pointerType, "ignored")
    /\ UNCHANGED touchVars

\* const isFirstTouch = touchPointerIds.size === 0
IsFirstTouch_Always(ids) == TRUE
IsFirstTouch(ids) == ids = {}

\* The subscriber of excalidrawApi.onPointerDown
onPointerDown(pointerType, pointerId) ==
    /\ TouchEffectMounted
    /\ IF pointerType = "pen" THEN RestoreStep("onPointerDown", pointerType, {})
       ELSE IF pointerType # "touch" THEN IgnoredPointer("onPointerDown", pointerType)
       ELSE /\ touchPointerIds' = touchPointerIds \cup {pointerId}
            /\ IF ~IsFirstTouch(touchPointerIds)
               THEN /\ lastCall' = PointerCall("onPointerDown", pointerType, "another touch")
                    /\ UNCHANGED <<toolBeforeTouch, activeTool>>
               ELSE IF activeTool.type # "hand"
               THEN /\ toolBeforeTouch' = activeTool
                    /\ activeTool' = Tool("hand")
                    /\ lastCall' = PointerCall("onPointerDown", pointerType, "saved")
               ELSE /\ lastCall' = PointerCall("onPointerDown", pointerType, "already hand")
                    /\ UNCHANGED <<toolBeforeTouch, activeTool>>
    /\ UNCHANGED <<rawText, now, parsePc, parseResult, svgVars>>
    /\ UNCHANGED stateVars
    /\ UNCHANGED <<catalogFetches, hydrations, guardedCalls, fetchesIssued>>

\* The subscriber of excalidrawApi.onPointerUp
onPointerUp(pointerType, pointerId) ==
    /\ TouchEffectMounted
    /\ IF pointerType # "touch" THEN IgnoredPointer("onPointerUp", pointerType)
       ELSE RestoreStep("onPointerUp", pointerType, touchPointerIds \ {pointerId})
    /\ UNCHANGED <<rawText, now, parsePc, parseResult, svgVars>>
    /\ UNCHANGED stateVars
    /\ UNCHANGED <<catalogFetches, hydrations, guardedCalls, fetchesIssued>>

\* The window's pointercancel listener
handlePointerCancel(pointerType, pointerId) ==
    /\ TouchEffectMounted
    /\ IF pointerType # "touch" THEN IgnoredPointer("handlePointerCancel", pointerType)
       ELSE RestoreStep("handlePointerCancel", pointerType, touchPointerIds \ {pointerId})
    /\ UNCHANGED <<rawText, now, parsePc, parseResult, svgVars>>
    /\ UNCHANGED stateVars
    /\ UNCHANGED <<catalogFetches, hydrations, guardedCalls, fetchesIssued>>

\* The editor's active tool changes otherwise than through this effect
ActiveToolChanges ==
    /\ TouchEffectMounted
    /\ \E type \in ToolTypes :
        /\ type # activeTool.type
        /\ activeTool' = Tool(type)
    /\ lastCall' = Call("setActiveTool", "changed")
    /\ UNCHANGED <<touchPointerIds, toolBeforeTouch>>
    /\ UNCHANGED <<rawText, now, parsePc, parseResult, svgVars>>
    /\ UNCHANGED stateVars
    /\ UNCHANGED <<catalogFetches, hydrations, guardedCalls, fetchesIssued>>

(***************************************************************************)
(* Specifications of the component: the catalog loader alone, the loader   *)
(* with the preview hydration cache, the loader with the selection and     *)
(* import dialog, and all of them together.                                *)
(***************************************************************************)
Init ==
    /\ InitDashboard
    /\ rawText = Text(FALSE, NotJson)
    /\ now = MaxClock
    /\ parsePc = "idle"
    /\ parseResult = [err |-> "", items |-> <<>>, candidates |-> <<>>]
    /\ previewElements = <<>>
    /\ previewBounds = JNull
    /\ previewShapes = <<>>
    /\ InitTouch

NextCatalog ==
    \/ ExcalidrawReady
    \/ handleOpenCatalog
    \/ handleLibraryExternalLink
    \/ RefreshCatalog
    \/ CatalogFetchSettles
    \/ handleCloseCatalog

SpecCatalog == Init /\ [][NextCatalog]_vars

NextPreview ==
    \/ NextCatalog
    \/ \E card \in Cards : ensureCatalogCollectionPreview(card)
    \/ \E id \in {h.id : h \in hydrations} : HydrationSettles(id)

SpecPreview == Init /\ [][NextPreview]_vars

NextImport ==
    \/ NextCatalog
    \/ \E card \in Cards : handlePreviewCollection(card)
    \/ \E k \in 1..Len(guardedCalls) : PreviewFetchSettles(k)
    \/ handleCloseCatalogSelection
    \/ \E i \in ListedItems : handleToggleCatalogItemSelection(i)
    \/ handleSelectAllCatalogItems
    \/ handleClearCatalogSelection
    \/ \E mode \in {"selected", "all"} : handleImportCatalogSelection(mode)
    \/ \E k \in 1..Len(guardedCalls) : ImportSettles(k)

SpecImport == Init /\ [][NextImport]_vars

NextFile ==
    \/ \E hasFile \in BOOLEAN : handleFileSelected(hasFile)
    \/ FileReaderSettles
    \/ FileImportSettles

\* Library bodies, fetched for a preview or read from a file
NextLibraryBody ==
    \/ ExcalidrawReady
    \/ handleOpenCatalog
    \/ CatalogFetchSettles
    \/ \E card \in Cards : handlePreviewCollection(card)
    \/ \E k \in 1..Len(guardedCalls) : PreviewFetchSettles(k)
    \/ handleCloseCatalogSelection
    \/ NextFile

SpecLibraryBody == Init /\ [][NextLibraryBody]_vars

\* The two writers of the preview cache: the hydration of the cards and the
\* preview fetch of the selection dialog
NextCache ==
    \/ handleOpenCatalog
    \/ CatalogFetchSettles
    \/ \E card \in Cards : ensureCatalogCollectionPreview(card)
    \/ \E id \in {h.id : h \in hydrations} : HydrationSettles(id)
    \/ \E card \in Cards : handlePreviewCollection(card)
    \/ \E k \in 1..Len(guardedCalls) : PreviewFetchSettles(k)
    \/ handleCloseCatalogSelection

SpecCache == Init /\ [][NextCache]_vars

\* The operations that set and clear collectionBeingAddedId, with the closing
\* of the dialogs that it blocks.  A pending fetch or host call settles at
\* some time: the platform's promises are assumed to settle, the code sets no
\* timeout of its own.
NextMarker ==
    \/ ExcalidrawReady
    \/ handleOpenCatalog
    \/ CatalogFetchSettles
    \/ handleCloseCatalog
    \/ \E card \in Cards : handlePreviewCollection(card)
    \/ \E k \in 1..Len(guardedCalls) : PreviewFetchSettles(k)
    \/ handleCloseCatalogSelection
    \/ \E mode \in {"selected", "all"} : handleImportCatalogSelection(mode)
    \/ \E k \in 1..Len(guardedCalls) : ImportSettles(k)

SpecMarker ==
    /\ Init
    /\ [][NextMarker]_vars
    /\ WF_vars(\E k \in 1..Len(guardedCalls) : PreviewFetchSettles(k))
    /\ WF_vars(\E k \in 1..Len(guardedCalls) : ImportSettles(k))

\* The file import beside the two operations the marker guards
NextFileBeside ==
    \/ ExcalidrawReady
    \/ handleOpenCatalog
    \/ CatalogFetchSettles
    \/ \E card \in Cards : handlePreviewCollection(card)
    \/ \E k \in 1..Len(guardedCalls) : PreviewFetchSettles(k)
    \/ \E mode \in {"selected", "all"} : handleImportCatalogSelection(mode)
    \/ \E k \in 1..Len(guardedCalls) : ImportSettles(k)
    \/ NextFile

SpecFileBeside == Init /\ [][NextFileBeside]_vars

Next == NextPreview \/ NextImport \/ NextFile

Spec == Init /\ [][Next]_vars

InitParse ==
    /\ rawText \in Texts
    /\ now \in 1..MaxClock
    /\ parsePc = "input"
    /\ parseResult = [err |-> "", items |-> <<>>, candidates |-> <<>>]
    /\ previewElements = <<>>
    /\ previewBounds = JNull
    /\ previewShapes = <<>>
    /\ InitTouch
    /\ InitDashboard

\* One call of parseLibraryItemsFromText(rawText); the candidates the extractor
\* found are kept beside the outcome.
ParseLibraryText ==
    /\ parsePc = "input"
    /\ parsePc' = "done"
    /\ parseResult' =
        LET out == parseLibraryItemsFromText(rawText)
        IN  [err |-> out.err, items |-> out.items,
             candidates |-> IF JsonParseFails(stripUtf8Bom(rawText)) THEN <<>>
                            ELSE extractCandidateLibraryArrays(stripUtf8Bom(rawText).json)]
    /\ UNCHANGED <<rawText, now, svgVars, touchVars>>
    /\ UNCHANGED <<stateVars, envVars>>

NextParse == ParseLibraryText

SpecParse == InitParse /\ [][NextParse]_vars

\* The preview renderer alone, over every element sequence of the pool
InitBounds ==
    /\ previewElements \in PreviewElementSequences
    /\ previewBounds = JNull
    /\ previewShapes = <<>>
    /\ InitTouch
    /\ rawText = Text(FALSE, NotJson)
    /\ now = MaxClock
    /\ parsePc = "idle"
    /\ parseResult = [err |-> "", items |-> <<>>, candidates |-> <<>>]
    /\ InitDashboard

NextBounds == PreviewElementsSvg

SpecBounds == InitBounds /\ [][NextBounds]_vars

\* The touch panning alone, from before the editor hands over its API
InitTouchPanning ==
    /\ InitDashboard
    /\ rawText = Text(FALSE, NotJson)
    /\ now = MaxClock
    /\ parsePc = "idle"
    /\ parseResult = [err |-> "", items |-> <<>>, candidates |-> <<>>]
    /\ previewElements = <<>>
    /\ previewBounds = JNull
    /\ previewShapes = <<>>
    /\ InitTouch

NextTouch ==
    \/ ExcalidrawReady
    \/ \E pointerType \in PointerTypes, pointerId \in PointerIds : onPointerDown(pointerType, pointerId)
    \/ \E pointerType \in PointerTypes, pointerId \in PointerIds : onPointerUp(pointerType, pointerId)
    \/ \E pointerType \in PointerTypes, pointerId \in PointerIds :
            handlePointerCancel(pointerType, pointerId)
    \/ ActiveToolChanges

SpecTouch == InitTouchPanning /\ [][NextTouch]_vars

(***************************************************************************)
(* Properties of the text pipeline, checked under SpecParse                *)
(***************************************************************************)
\* Every value in the document with its depth below the root
RECURSIVE NodesFrom(_, _)
NodesFrom(value, depth) ==
    {[node |-> value, depth |-> depth]}
    \cup UNION { NodesFrom(ObjectValues(value)[i], depth + 1) : i \in 1..Len(ObjectValues(value)) }

\* The members of the arrays of the document, with their depth
EntriesOf(document) ==
    UNION { { [entry |-> n.node.v[i], depth |-> n.depth + 1] : i \in 1..Len(n.node.v) } :
            n \in { m \in NodesFrom(document, 0) : IsArray(m.node) } }

HasElementRecords(value) ==
    IsArray(value) /\ \E i \in 1..Len(value.v) : value.v[i].t \in {"obj", "arr"}

\* The entry has a non-empty element sequence, under elements or under data.elements
EntryHasElements(entry) ==
    \/ HasElementRecords(Get(entry, "elements"))
    \/ HasElementRecords(Get(Get(entry, "data"), "elements"))

ParsedJson == rawText.json
IsJson == rawText.json # NotJson

ReachableEntryWithElements(document, maxDepth) ==
    \E e \in EntriesOf(document) : e.depth <= maxDepth /\ EntryHasElements(e.entry)

\* C7: a document that holds, within depth 5, an entry with a non-empty element
\* sequence makes the extractor return a non-empty candidate and the normalizer
\* a non-empty item list.
C7_ReachableEntryIsFound ==
    (parsePc = "done" /\ IsJson /\ ReachableEntryWithElements(ParsedJson, 5))
        => /\ \E i \in 1..Len(parseResult.candidates) : Len(parseResult.candidates[i]) > 0
           /\ Len(parseResult.items) > 0
           /\ parseResult.err = ""

\* The only entry with elements sits exactly at depth 5, under data.elements
C7_Witness ==
    /\ parsePc = "done" /\ IsJson
    /\ ReachableEntryWithElements(ParsedJson, 5)
    /\ ~ReachableEntryWithElements(ParsedJson, 4)
    /\ \A e \in EntriesOf(ParsedJson) :
           EntryHasElements(e.entry) => ~HasElementRecords(Get(e.entry, "elements"))
    /\ Len(parseResult.items) > 0

\* C8: a document (scalar, null, record or array) with no entry that has a
\* non-empty element sequence yields the empty item list, and the only error
\* is the caller's "no figures found", never one about the document.
C8_NoEntryYieldsEmpty ==
    (parsePc = "done" /\ IsJson /\ ~\E e \in EntriesOf(ParsedJson) : EntryHasElements(e.entry))
        => /\ parseResult.items = <<>>
           /\ extractLibraryItems(ParsedJson) = <<>>
           /\ parseResult.err = ERR_NO_FIGURES

\* An array of records, none of which has elements, was parsed
C8_Witness ==
    /\ parsePc = "done" /\ IsJson
    /\ ~\E e \in EntriesOf(ParsedJson) : EntryHasElements(e.entry)
    /\ Len(parseResult.candidates) > 0
    /\ parseResult.items = <<>>

\* C9: the returned list is the normalized form of a discovered candidate, and
\* no discovered candidate normalizes to more items.
C9_LargestCandidateWins ==
    (parsePc = "done" /\ IsJson)
        => /\ \A i \in 1..Len(parseResult.candidates) :
                  Len(normalizeLibraryItems(parseResult.candidates[i])) <= Len(parseResult.items)
           /\ \/ parseResult.items = <<>>
              \/ \E i \in 1..Len(parseResult.candidates) :
                     normalizeLibraryItems(parseResult.candidates[i]) = parseResult.items

\* A shorter non-empty candidate was discovered before the longest one
C9_Witness ==
    /\ parsePc = "done" /\ IsJson
    /\ \E i, j \in 1..Len(parseResult.candidates) :
           /\ i < j
           /\ Len(normalizeLibraryItems(parseResult.candidates[i])) > 0
           /\ Len(normalizeLibraryItems(parseResult.candidates[i]))
                  < Len(normalizeLibraryItems(parseResult.candidates[j]))
           /\ Len(normalizeLibraryItems(parseResult.candidates[j])) = Len(parseResult.items)

\* The positions (one-based) of the entries of a candidate that have elements
KeptPositions(candidate) ==
    SelectSeq([i \in 1..Len(candidate) |-> i], LAMBDA i : EntryHasElements(candidate[i]))

HasExplicitId(entry) == Get(entry, "id").t = "str" /\ Trim(Get(entry, "id").v) # ""

\* C10: in the normalized form of every candidate, an entry without a non-blank
\* string id gets item-<n>, n its position in the candidate, so the synthetic ids
\* are pairwise distinct; an entry with an explicit id keeps it (trimmed), also
\* when another entry has the same id: nothing is deduplicated.
C10_SyntheticIdsByPosition ==
    parsePc = "done" =>
        \A c \in 1..Len(parseResult.candidates) :
            LET candidate == parseResult.candidates[c]
                out == normalizeLibraryItems(candidate)
                kept == KeptPositions(candidate)
            IN  /\ Len(out) = Len(kept)
                /\ \A k \in 1..Len(kept) :
                       Get(out[k], "id") =
                           JStr(IF HasExplicitId(candidate[kept[k]])
                                THEN Trim(Get(candidate[kept[k]], "id").v)
                                ELSE "item-" \o NumToString(kept[k]))
                /\ \A k, l \in 1..Len(kept) :
                       (k # l /\ ~HasExplicitId(candidate[kept[k]]) /\ ~HasExplicitId(candidate[kept[l]]))
                           => Get(out[k], "id") # Get(out[l], "id")

\* A candidate with two entries of the same explicit id and two without an id,
\* one of them after a dropped entry
C10_Witness ==
    /\ parsePc = "done"
    /\ \E c \in 1..Len(parseResult.candidates) :
           LET candidate == parseResult.candidates[c]
               out == normalizeLibraryItems(candidate)
           IN  /\ Len(out) = 4 /\ Len(candidate) = 5
               /\ Get(out[1], "id") = JStr("item-1")
               /\ Get(out[2], "id") = JStr("a")
               /\ Get(out[3], "id") = JStr("a")
               /\ Get(out[4], "id") = JStr("item-5")

\* The items handlePreviewCollection puts in CatalogSelectionState.items for the text
SelectionItems == toCatalogLibraryItems(parseResult.items)

\* C11: the ids of the items of CatalogSelectionState.items are pairwise distinct,
\* also when entries of the source share an explicit id or an explicit id is
\* the synthetic id of another entry.
C11_SelectionIdsDistinct ==
    parsePc = "done" =>
        \A i, j \in 1..Len(SelectionItems) :
            i # j => SelectionItems[i].id # SelectionItems[j].id

\* Two normalized items have the same id, and one of the two got it synthesized
C11_Witness ==
    /\ parsePc = "done"
    /\ Len(SelectionItems) = 2
    /\ Get(parseResult.items[1], "id") = Get(parseResult.items[2], "id")
    /\ \E c \in 1..Len(parseResult.candidates) :
           /\ normalizeLibraryItems(parseResult.candidates[c]) = parseResult.items
           /\ \E k \in 1..Len(parseResult.candidates[c]) :
                  /\ EntryHasElements(parseResult.candidates[c][k])
                  /\ ~HasExplicitId(parseResult.candidates[c][k])

\* A record that is an element and no item: it has a type and neither elements nor data
IsElementRecord(value) ==
    /\ value.t = "obj"
    /\ HasKey(value, "type")
    /\ ~HasKey(value, "elements")
    /\ ~HasKey(value, "data")

\* The document is a bare array of element records
IsBareElementArray(document) ==
    /\ IsArray(document)
    /\ Len(document.v) > 0
    /\ \A i \in 1..Len(document.v) : IsElementRecord(document.v[i])

\* C12: a body that is a bare array of element records yields exactly one item,
\* named "Figura 1", whose elements are all the records of the array.
C12_BareElementArrayIsOneItem ==
    (parsePc = "done" /\ IsJson /\ IsBareElementArray(ParsedJson))
        => /\ parseResult.err = ""
           /\ Len(parseResult.items) = 1
           /\ Get(parseResult.items[1], "name") = JStr("Figura 1")
           /\ Get(parseResult.items[1], "elements") = ParsedJson

\* What the code does with it: every record of the array is taken for an item
\* without elements and dropped, and the call throws "no figures"
C12_Witness ==
    /\ parsePc = "done" /\ IsJson
    /\ IsBareElementArray(ParsedJson)
    /\ Len(ParsedJson.v) = 2
    /\ parseResult.candidates = <<ParsedJson.v>>
    /\ parseResult.items = <<>>
    /\ parseResult.err = ERR_NO_FIGURES

\* A non-empty array of plain element records
IsElementArray(value) ==
    /\ IsArray(value)
    /\ Len(value.v) > 0
    /\ \A i \in 1..Len(value.v) : IsElementRecord(value.v[i])

\* The document is {libraryItems: [e1..en]}, every ei a record with such elements
IsLibraryItemsDocument(document) ==
    /\ document.t = "obj"
    /\ Len(document.v) = 1
    /\ document.v[1].k = "libraryItems"
    /\ IsArray(document.v[1].v)
    /\ \A i \in 1..Len(document.v[1].v.v) :
           /\ document.v[1].v.v[i].t = "obj"
           /\ IsElementArray(Get(document.v[1].v.v[i], "elements"))

\* C13: for {libraryItems: [e1..en]} whose entries all have a non-empty elements
\* array of plain element records, extractLibraryItems returns n items and item i
\* has the elements of ei, in their order.
C13_LibraryItemsKeepElements ==
    (parsePc = "done" /\ IsJson /\ IsLibraryItemsDocument(ParsedJson))
        => LET entries == Get(ParsedJson, "libraryItems").v
           IN  /\ extractLibraryItems(ParsedJson) = parseResult.items
               /\ Len(parseResult.items) = Len(entries)
               /\ \A i \in 1..Len(entries) :
                      Get(parseResult.items[i], "elements") = Get(entries[i], "elements")

\* Two entries, one of them with two elements
C13_Witness ==
    /\ parsePc = "done" /\ IsJson
    /\ IsLibraryItemsDocument(ParsedJson)
    /\ Len(parseResult.items) = 2
    /\ \E i \in 1..2 : Get(parseResult.items[i], "elements") = JArr(<<ElRect, ElEllipse>>)

\* C14: every item the normalizer produces, and so every item offered for
\* selection, has a non-empty elements sequence; the items of a candidate are its
\* entries that have element records under elements or data.elements, in order,
\* and an entry with none is not in the output.
C14_ItemsHaveElements ==
    parsePc = "done" =>
        /\ \A c \in 1..Len(parseResult.candidates) :
               LET candidate == parseResult.candidates[c]
                   normalized == normalizeLibraryItems(candidate)
                   kept == KeptPositions(candidate)
               IN  /\ Len(normalized) = Len(kept)
                   /\ \A i \in 1..Len(normalized) :
                          /\ IsArray(Get(normalized[i], "elements"))
                          /\ Len(Get(normalized[i], "elements").v) > 0
                          /\ Get(normalized[i], "elements").v = extractItemElements(candidate[kept[i]])
        /\ \A i \in 1..Len(SelectionItems) : Len(SelectionItems[i].elements) > 0

\* The winning candidate has an entry with elements and an entry with an empty
\* elements array; only the former is offered
C14_Witness ==
    /\ parsePc = "done"
    /\ Len(SelectionItems) = 1
    /\ \E c \in 1..Len(parseResult.candidates) :
           LET candidate == parseResult.candidates[c]
           IN  /\ normalizeLibraryItems(candidate) = parseResult.items
               /\ Len(candidate) = 2
               /\ \E k \in 1..2 :
                      /\ candidate[k].t = "obj"
                      /\ Get(candidate[k], "elements") = JArr(<<>>)
                      /\ ~EntryHasElements(candidate[k])

\* itemsToImport.map((item) => item.raw) for mode 'all': the records handed to
\* importLibraryItems
SubmittedRecords == [i \in 1..Len(SelectionItems) |-> SelectionItems[i].raw]

\* C15: the record submitted to the host for an item, its raw record, is the
\* source entry as the document declares it: for the candidate the items come
\* from, the i-th submitted record equals the i-th entry that has elements.
C15_RawIsSourceEntry ==
    parsePc = "done" =>
        \A c \in 1..Len(parseResult.candidates) :
            LET candidate == parseResult.candidates[c]
            IN  (Len(parseResult.items) > 0 /\ normalizeLibraryItems(candidate) = parseResult.items)
                    => \A i \in 1..Len(SubmittedRecords) :
                           SubmittedRecords[i] = candidate[KeptPositions(candidate)[i]]

\* The document is {libraryItems: [{elements: [rectangle]}]}; the record submitted
\* for its entry has gained id, name, status and created
C15_Witness ==
    /\ parsePc = "done" /\ IsJson
    /\ ParsedJson = JObj(<<Pair("libraryItems", JArr(<<JObj(<<Pair("elements", JArr(<<ElRect>>))>>)>>))>>)
    /\ Len(SubmittedRecords) = 1
    /\ Get(SubmittedRecords[1], "id") = JStr("item-1")
    /\ Get(SubmittedRecords[1], "name") = JStr("Figura 1")
    /\ Get(SubmittedRecords[1], "status") = JStr("published")
    /\ Get(SubmittedRecords[1], "created") = JNum(now)
    /\ Get(SubmittedRecords[1], "elements") = JArr(<<ElRect>>)

\* The arrays of the document, with the number of levels they lie below the root
ArrayNodes(document) == {n \in NodesFrom(document, 0) : IsArray(n.node)}

\* The arrays a record of the document holds under a recognized container key
KeyedArrayNodes(document) ==
    { [node |-> Get(m.node, LIBRARY_ARRAY_CANDIDATE_KEYS[k]), depth |-> m.depth + 1] :
        m \in {n \in NodesFrom(document, 0) : n.node.t = "obj"},
        k \in 1..Len(LIBRARY_ARRAY_CANDIDATE_KEYS) }

\* The candidate is the entry list of one of the given arrays
CandidateFrom(candidate, arrays) ==
    \E n \in arrays : IsArray(n.node) /\ extractLibraryEntryArray(n.node) = candidate

\* C27 (as stated): every candidate of the extractor, and so every array that
\* contributes items, is an array at most 5 levels below the document root.
C27_NoCandidateBelowDepth5 ==
    (parsePc = "done" /\ IsJson) =>
        \A c \in 1..Len(parseResult.candidates) :
            CandidateFrom(parseResult.candidates[c],
                          {n \in ArrayNodes(ParsedJson) : n.depth <= 5})

\* C27 (amended): every candidate of the extractor is an array at most 5 levels
\* below the document root, or an array 6 levels below it that a record at
\* level 5 holds under a recognized container key; nothing deeper, and no other
\* array at level 6, is a candidate or contributes items.
C27_CandidatesWithinTraversal ==
    (parsePc = "done" /\ IsJson) =>
        /\ \A c \in 1..Len(parseResult.candidates) :
               CandidateFrom(parseResult.candidates[c],
                             {n \in ArrayNodes(ParsedJson) : n.depth <= 5}
                             \cup {n \in KeyedArrayNodes(ParsedJson) : n.depth = 6})
        /\ Len(parseResult.items) > 0 =>
               \E c \in 1..Len(parseResult.candidates) :
                   normalizeLibraryItems(parseResult.candidates[c]) = parseResult.items

\* The only array with entries lies 6 levels below the root, under libraryItems,
\* and its entries are the items
C27_Witness ==
    /\ parsePc = "done" /\ IsJson
    /\ Len(parseResult.candidates) = 1
    /\ ~CandidateFrom(parseResult.candidates[1], {n \in ArrayNodes(ParsedJson) : n.depth <= 5})
    /\ CandidateFrom(parseResult.candidates[1], {n \in KeyedArrayNodes(ParsedJson) : n.depth = 6})
    /\ Len(parseResult.items) = 2

\* An array 6 levels below the root under a key that is not recognized, and one
\* 7 levels below it, give nothing
C27_WitnessTooDeep ==
    /\ parsePc = "done" /\ IsJson
    /\ \E n \in ArrayNodes(ParsedJson) :
           /\ n.depth \in {6, 7}
           /\ \E i \in 1..Len(n.node.v) : EntryHasElements(n.node.v[i])
    /\ parseResult.candidates = <<>>
    /\ parseResult.err = ERR_NO_FIGURES

\* The position in the candidate list of the first candidate that normalizes
\* to as many items as any
NormalizedLength(k) == Len(normalizeLibraryItems(parseResult.candidates[k]))

IsFirstLargest(k) ==
    /\ \A m \in 1..Len(parseResult.candidates) : NormalizedLength(m) <= NormalizedLength(k)
    /\ \A m \in 1..(k - 1) : NormalizedLength(m) < NormalizedLength(k)

\* C37: among the candidates that normalize to the largest number of items,
\* extractLibraryItems returns the one the traversal discovered first, so a
\* document has one result.
C37_FirstDiscoveredWinsTies ==
    (parsePc = "done" /\ IsJson /\ parseResult.items # <<>>) =>
        \A k \in 1..Len(parseResult.candidates) :
            IsFirstLargest(k) =>
                parseResult.items = normalizeLibraryItems(parseResult.candidates[k])

\* Two candidates normalize to the same largest number of items and to
\* different items, and the result is the earlier one's
C37_Witness ==
    /\ parsePc = "done" /\ IsJson
    /\ \E i, j \in 1..Len(parseResult.candidates) :
           /\ i < j
           /\ IsFirstLargest(i)
           /\ NormalizedLength(j) = NormalizedLength(i)
           /\ normalizeLibraryItems(parseResult.candidates[j])
                  # normalizeLibraryItems(parseResult.candidates[i])
           /\ parseResult.items = normalizeLibraryItems(parseResult.candidates[i])

(***************************************************************************)
(* Properties of the catalog loader, checked under SpecCatalog             *)
(***************************************************************************)
LoaderVars == <<catalogLoadState, catalogError, catalogCollections, catalogFetches, fetchesIssued>>

\* A step in which loadCatalogCollections is invoked (not one resumed)
LoadInvoked == lastCall'.fn = "loadCatalogCollections" /\ ~lastCall'.resumed

\* C1: at most one catalog fetch is in flight in every reachable state, and
\* loadCatalogCollections invoked while catalogLoadState is "loading" starts no
\* fetch and leaves catalogLoadState, catalogError and catalogCollections as they were.
C1_OneCatalogFetchInFlight ==
    /\ [](catalogFetches <= 1)
    /\ [][(LoadInvoked /\ catalogLoadState = "loading") => UNCHANGED LoaderVars]_vars

C1_Witness ==
    /\ lastCall = Call("loadCatalogCollections", "returned")
    /\ catalogLoadState = "loading"
    /\ catalogFetches = 1

\* The outcomes of the catalog fetch that the claim calls a failure of the load
CatalogLoadFailed(response) ==
    \/ response.kind = "rejected"
    \/ ~response.ok
    \/ response.body = NotJson
    \/ Len(parseCatalogCollections(response.body)) = 0

LoadResumed == lastCall.fn = "loadCatalogCollections" /\ lastCall.resumed

\* C4: when a catalog load has failed (the fetch rejected, the status was not OK,
\* the body was not JSON or no valid collection came out of it), catalogLoadState
\* is "error", catalogError is a non-empty message and catalogCollections is
\* FALLBACK_CATALOG.
C4_FailureFallsBack ==
    (LoadResumed /\ CatalogLoadFailed(lastCall.response)) =>
        /\ catalogLoadState = "error"
        /\ catalogError # JNull
        /\ Len(catalogError.v) > 0
        /\ catalogCollections = FALLBACK_CATALOG

C4_Witness ==
    /\ LoadResumed
    /\ lastCall.response.kind = "rejected"
    /\ catalogLoadState = "error"
    /\ fetchesIssued > 1

\* C5: catalogCollections is non-empty in every reachable state.
C5_CatalogNeverEmpty == Len(catalogCollections) > 0

C5_Witness ==
    /\ LoadResumed
    /\ lastCall.response.kind = "response"
    /\ lastCall.response.ok
    /\ lastCall.response.body # NotJson
    /\ Len(parseCatalogCollections(lastCall.response.body)) = 0
    /\ Len(catalogCollections) = Len(FALLBACK_CATALOG)

LoadStateTransitions ==
    { <<"idle", "loading">>, <<"loading", "ready">>, <<"loading", "error">>,
      <<"ready", "loading">>, <<"error", "loading">> }

\* C6: catalogLoadState changes only along idle->loading, loading->ready,
\* loading->error, ready->loading and error->loading; it leaves ready or error only
\* in a step that invokes loadCatalogCollections, and it never becomes idle again.
C6_LoadStateTransitions ==
    [][catalogLoadState' # catalogLoadState =>
          /\ <<catalogLoadState, catalogLoadState'>> \in LoadStateTransitions
          /\ catalogLoadState \in {"ready", "error"} => LoadInvoked]_vars

C6_Witness ==
    /\ lastCall = Call("loadCatalogCollections", "fetch")
    /\ catalogLoadState = "loading"
    /\ fetchesIssued = 2

(***************************************************************************)
(* Properties of the preview hydration cache, checked under SpecPreview    *)
(***************************************************************************)
\* A step in which ensureCatalogCollectionPreview is invoked for the collection id
HydrationInvoked(id) ==
    /\ lastCall'.fn = "ensureCatalogCollectionPreview"
    /\ ~lastCall'.resumed
    /\ lastCall'.arg = id

CollectionIds ==
    {catalogCollections[c].id : c \in 1..Len(catalogCollections)} \cup {h.id : h \in hydrations}

GuardedHandlerInvoked ==
    /\ lastCall'.fn \in {"handlePreviewCollection", "handleImportCatalogSelection"}
    /\ ~lastCall'.resumed

\* C3: at most one call guarded by collectionBeingAddedId is in flight, the marker
\* being non-null exactly while one is; handlePreviewCollection or
\* handleImportCatalogSelection invoked while the marker is non-null makes no
\* fetch, no host call and no change of state.
C3_OneGuardedCallInFlight ==
    /\ [](Len(guardedCalls) <= 1)
    /\ []((collectionBeingAddedId # JNull) <=> (Len(guardedCalls) = 1))
    /\ [][(GuardedHandlerInvoked /\ collectionBeingAddedId # JNull) =>
            /\ UNCHANGED <<stateVars, catalogFetches, hydrations, guardedCalls, fetchesIssued>>
            /\ lastCall'.host = JNull
            /\ lastCall'.toast = JNull]_vars

C3_Witness ==
    /\ lastCall = ImportCall("selected", "returned")
    /\ collectionBeingAddedId # JNull
    /\ Len(guardedCalls) = 1
    /\ guardedCalls[1].kind = "import"

\* handleImportCatalogSelection(mode) was invoked in this step
ImportInvoked(mode) ==
    /\ lastCall'.fn = "handleImportCatalogSelection"
    /\ ~lastCall'.resumed
    /\ lastCall'.arg = JStr(mode)

\* A selection is shown, no import or preview is in flight and no listed item is selected
EmptySelectedSet ==
    /\ catalogSelection # JNull
    /\ collectionBeingAddedId = JNull
    /\ \A i \in 1..Len(catalogSelection.items) :
           ~Includes(catalogSelection.selectedItemIds, catalogSelection.items[i].id)

SELECT_ONE_MESSAGE == "Selecciona al menos una figura para importar."

\* What an empty import leaves alone: the whole state, fetches and pending calls
EmptyImportFrame ==
    /\ lastCall'.did = "rejected"
    /\ lastCall'.host = JNull
    /\ UNCHANGED <<stateVars, catalogFetches, hydrations, guardedCalls, fetchesIssued>>

ImportInFlight == \E k \in 1..Len(guardedCalls) : guardedCalls[k].kind = "import"

\* The handler was invoked in this step
Invoked(fn) == lastCall'.fn = fn /\ ~lastCall'.resumed

\* What a handler that returns at its guard leaves alone
ReturnsAtGuard ==
    /\ lastCall'.did = "returned"
    /\ lastCall'.toast = JNull
    /\ lastCall'.host = JNull
    /\ UNCHANGED <<stateVars, catalogFetches, hydrations, guardedCalls, fetchesIssued>>

\* C17: while collectionBeingAddedId is non-null, handleCloseCatalog and
\* handleCloseCatalogSelection leave isCatalogOpen and catalogSelection (and all
\* other state) unchanged and handlePreviewCollection does nothing; so while an
\* import is in flight the dialog stays open on the selection of the importing
\* collection.
C17_NoLeavingDuringImport ==
    /\ [](ImportInFlight =>
            /\ isCatalogOpen
            /\ catalogSelection # JNull
            /\ collectionBeingAddedId = JStr(catalogSelection.collection.id))
    /\ [][(collectionBeingAddedId # JNull
            /\ (\/ Invoked("handleCloseCatalog")
                \/ Invoked("handleCloseCatalogSelection")
                \/ Invoked("handlePreviewCollection")))
          => ReturnsAtGuard]_vars

\* The close button of the selection is pressed during an import
C17_Witness ==
    /\ ImportInFlight
    /\ lastCall = Call("handleCloseCatalogSelection", "returned")
    /\ isCatalogOpen
    /\ catalogSelection # JNull

\* A step in which handleImportCatalogSelection ends in its catch block
ImportFailed ==
    /\ lastCall'.fn = "handleImportCatalogSelection"
    /\ lastCall'.did = "failed"

\* What a failed import leaves: the selection as it was, the marker cleared
FailedImportFrame ==
    /\ catalogSelection # JNull
    /\ catalogSelection' = catalogSelection
    /\ collectionBeingAddedId' = JNull
    /\ UNCHANGED <<isCatalogOpen, catalogCollections, catalogPreviewElementsByCollectionId>>

\* Only a successful import sets catalogSelection to null
OnlySuccessClears ==
    (lastCall'.fn = "handleImportCatalogSelection" /\ catalogSelection # JNull
        /\ catalogSelection' = JNull)
            => lastCall'.did = "imported"

SelectionHandlers ==
    {"handleToggleCatalogItemSelection", "handleSelectAllCatalogItems",
     "handleClearCatalogSelection"}

\* The ids of the items offered that are selected, as a set
SelectedIds(selection) ==
    {selection.selectedItemIds[i] : i \in 1..Len(selection.selectedItemIds)}

\* The preview fetch installs the items parsed from its body, none selected
InstalledByPreview ==
    /\ lastCall'.fn = "handlePreviewCollection"
    /\ lastCall'.resumed
    /\ lastCall'.response.kind = "response"
    /\ catalogSelection'.items =
           toCatalogLibraryItems(parseLibraryItemsFromText(lastCall'.response.body).items)
    /\ catalogSelection'.selectedItemIds = <<>>

\* C20: toggling an item, select all and clear change selectedItemIds only: the
\* step of each leaves collection, items and every other variable alone; from
\* the step in which the preview fetch installs a selection until it is set to
\* null, collection and items never change under any operation; and the three
\* updaters return null for a null selection.
C20_SelectionHandlersKeepItems ==
    /\ [][(lastCall'.fn \in SelectionHandlers) =>
            /\ catalogSelection # JNull /\ catalogSelection' # JNull
            /\ catalogSelection'.collection = catalogSelection.collection
            /\ catalogSelection'.items = catalogSelection.items
            /\ SelectedIds(catalogSelection') \subseteq
                   {catalogSelection.items[i].id : i \in 1..Len(catalogSelection.items)}
            /\ UNCHANGED <<isCatalogOpen, catalogLoadState, catalogCollections,
                           catalogPreviewElementsByCollectionId, catalogError,
                           collectionBeingAddedId, catalogPreviewLoadingRef, excalidrawApi>>
            /\ UNCHANGED <<catalogFetches, hydrations, guardedCalls, fetchesIssued>>
            /\ lastCall'.host = JNull /\ lastCall'.toast = JNull]_vars
    /\ [][(catalogSelection' # JNull) =>
            IF catalogSelection = JNull THEN InstalledByPreview
            ELSE /\ catalogSelection'.collection = catalogSelection.collection
                 /\ catalogSelection'.items = catalogSelection.items]_vars
    /\ [](/\ ToggledSelection(JNull, "a-0") = JNull
          /\ AllSelected(JNull) = JNull
          /\ NoneSelected(JNull) = JNull)

\* Select all, then the first of two items toggled off: the second is still
\* selected and both items are still listed
C20_Witness ==
    /\ lastCall.fn = "handleToggleCatalogItemSelection"
    /\ catalogSelection # JNull
    /\ Len(catalogSelection.items) = 2
    /\ catalogSelection.selectedItemIds = <<catalogSelection.items[2].id>>
    /\ catalogSelection.items =
           toCatalogLibraryItems(parseLibraryItemsFromText(
               Text(FALSE, JArr(<<JObj(<<Pair("id", JStr("a")), Pair("elements", JArr(<<ElEllipse>>))>>),
                                  JObj(<<Pair("id", JStr("a")), Pair("name", JStr("Casa")),
                                         Pair("data", JObj(<<Pair("elements", JArr(<<ElRect, ElEllipse>>))>>))>>)>>))).items)

\* A step in which a fetch installs its items as the selection
SelectionInstalled == catalogSelection' # JNull /\ catalogSelection' # catalogSelection
                        /\ lastCall'.fn = "handlePreviewCollection"

\* C26: while the dialog is closed there is no selection; and the preview fetch
\* that installs its result does so in the open dialog, where no selection is
\* shown, for the collection whose id is the marker (nothing has superseded it).
C26_SelectionOnlyWhileOpen ==
    /\ [](~isCatalogOpen => catalogSelection = JNull)
    /\ [][SelectionInstalled =>
            /\ isCatalogOpen /\ isCatalogOpen'
            /\ catalogSelection = JNull
            /\ collectionBeingAddedId = JStr(catalogSelection'.collection.id)
            /\ lastCall'.resumed]_vars

\* Every fetch of the budget has been issued, a preview fetch completed and its items
\* are shown in the open dialog
C26_Witness ==
    /\ lastCall.fn = "handlePreviewCollection"
    /\ lastCall.resumed
    /\ isCatalogOpen
    /\ catalogSelection # JNull
    /\ catalogLoadState # "loading"
    /\ fetchesIssued = MaxFetches

(***************************************************************************)
(* Properties of library bodies, checked under SpecLibraryBody             *)
(***************************************************************************)
\* The text a continuation was resumed with: the body of the response of the
\* preview fetch, or what the FileReader loaded
BodyRead ==
    IF lastCall'.fn = "handlePreviewCollection" THEN lastCall'.response.body
    ELSE lastCall'.response.text

\* A step in which handlePreviewCollection or the file import receives its text
LibraryBodyReceived ==
    /\ lastCall'.resumed
    /\ \/ /\ lastCall'.fn = "handlePreviewCollection"
          /\ lastCall'.response.kind = "response"
          /\ lastCall'.response.ok
       \/ /\ lastCall'.fn = "handleFileSelected"
          /\ lastCall'.response.kind = "load"

MalformedBodyReceived == LibraryBodyReceived /\ JsonParseFails(stripUtf8Bom(BodyRead))

\* The parse error is raised and nothing the dialog shows is touched
MalformedBodyFrame ==
    /\ parseLibraryItemsFromText(BodyRead) = Thrown(ERR_NOT_JSON)
    /\ lastCall'.host = JNull
    /\ UNCHANGED <<catalogSelection, catalogCollections, catalogPreviewElementsByCollectionId,
                   isCatalogOpen, catalogLoadState, catalogError>>

C19_WitnessFetched ==
    /\ lastCall.fn = "handlePreviewCollection"
    /\ lastCall.resumed
    /\ lastCall.response = Response(TRUE, 200, Text(FALSE, NotJson))
    /\ lastCall.toast = JStr(ERR_NOT_JSON)
    /\ catalogSelection = JNull
    /\ catalogPreviewElementsByCollectionId # {}

(***************************************************************************)
(* Properties of the preview cache with both its writers, checked under    *)
(* SpecCache                                                               *)
(***************************************************************************)
\* The elements a settled fetch offers to the cache: those of the first item that
\* has any, none when its body gave no item
OfferedPreview(response) ==
    LET out == LibraryOutcome(response, "", "")
    IN  IF out.ok THEN FirstWithElements(out.items) ELSE <<>>

\* C21: the preview cache holds at most one entry per collection id, every entry
\* is non-empty, and an entry once written is never overwritten or removed,
\* whichever of ensureCatalogCollectionPreview and handlePreviewCollection
\* completes later.
C21_CacheWrittenOnce ==
    /\ [](\A e, f \in catalogPreviewElementsByCollectionId :
            /\ Len(e.elements) > 0
            /\ (e.id = f.id => e = f))
    /\ [][catalogPreviewElementsByCollectionId \subseteq catalogPreviewElementsByCollectionId']_vars

\* The preview fetch of the selection dialog completes after the hydration of the
\* same collection wrote other elements: the entry is still the hydration's
C21_Witness ==
    /\ lastCall.fn = "handlePreviewCollection"
    /\ lastCall.resumed
    /\ catalogSelection # JNull
    /\ Len(OfferedPreview(lastCall.response)) = 1
    /\ \E e \in catalogPreviewElementsByCollectionId :
           /\ e.id = catalogSelection.collection.id
           /\ e.elements # OfferedPreview(lastCall.response)[1].elements

\* C22: ensureCatalogCollectionPreview invoked for a collection id that has an
\* entry in the cache starts no fetch and changes nothing: the in-flight set,
\* the pending hydrations, the fetches issued and the state stay as they were.
C22_CachedIdStartsNoFetch ==
    [][\A e \in catalogPreviewElementsByCollectionId :
            HydrationInvoked(e.id) =>
                /\ lastCall'.did = "cached"
                /\ UNCHANGED <<hydrations, fetchesIssued, catalogFetches, guardedCalls>>
                /\ UNCHANGED stateVars]_vars

\* The card of a cached collection asks again while a fetch could still be issued
C22_Witness ==
    /\ lastCall.fn = "ensureCatalogCollectionPreview"
    /\ lastCall.did = "cached"
    /\ \E e \in catalogPreviewElementsByCollectionId : e.id = lastCall.arg
    /\ fetchesIssued < MaxFetches
    /\ lastCall.arg \notin catalogPreviewLoadingRef

(***************************************************************************)
(* Further properties of the hydration, checked under SpecPreview          *)
(***************************************************************************)
\* A step in which the fetch of a hydration settles
HydrationSettled ==
    /\ lastCall'.fn = "ensureCatalogCollectionPreview"
    /\ lastCall'.resumed

\* The fetch was rejected, answered with a non-OK status, or its body is not
\* JSON or has no figures
HydrationFailed == HydrationSettled /\ ~LibraryOutcome(lastCall'.response, "", "").ok

\* C23: a failed hydration shows no message, makes no host call and leaves the
\* preview cache, catalogLoadState, catalogError, catalogCollections,
\* catalogSelection, collectionBeingAddedId and isCatalogOpen unchanged.
C23_HydrationFailureSwallowed ==
    [][HydrationFailed =>
            /\ lastCall'.toast = JNull
            /\ lastCall'.host = JNull
            /\ UNCHANGED <<catalogPreviewElementsByCollectionId, catalogLoadState, catalogError,
                           catalogCollections, catalogSelection, collectionBeingAddedId,
                           isCatalogOpen, excalidrawApi>>]_vars

\* A hydration gets a body that is not JSON while the editor could show a message
\* and another collection is cached
C23_Witness ==
    /\ lastCall.fn = "ensureCatalogCollectionPreview"
    /\ lastCall.resumed
    /\ lastCall.response = Response(TRUE, 200, Text(FALSE, NotJson))
    /\ lastCall.toast = JNull
    /\ excalidrawApi # "none"
    /\ catalogPreviewElementsByCollectionId # {}
    /\ \A e \in catalogPreviewElementsByCollectionId : e.id # lastCall.arg

\* C24: a collection id is in the in-flight set exactly while a hydration call
\* for it awaits its fetch; the step in which the fetch settles removes it,
\* whatever the fetch came to; and a request for an id that is neither cached
\* nor in flight is not turned away: it starts a fetch and enters the set.
C24_InFlightExactlyWhilePending ==
    /\ [](catalogPreviewLoadingRef = {h.id : h \in hydrations})
    /\ [][HydrationSettled =>
            /\ lastCall'.arg \in catalogPreviewLoadingRef
            /\ lastCall'.arg \notin catalogPreviewLoadingRef']_vars
    /\ [][(lastCall'.fn = "ensureCatalogCollectionPreview" /\ ~lastCall'.resumed
            /\ lastCall'.arg \notin catalogPreviewLoadingRef
            /\ \A e \in catalogPreviewElementsByCollectionId : e.id # lastCall'.arg)
          => /\ lastCall'.did = "fetch"
             /\ lastCall'.arg \in catalogPreviewLoadingRef'
             /\ fetchesIssued' = fetchesIssued + 1]_vars

\* A hydration has failed with no figures found: its id is out of the set and
\* still uncached, and a fetch can be issued again
C24_Witness ==
    /\ lastCall.fn = "ensureCatalogCollectionPreview"
    /\ lastCall.resumed
    /\ lastCall.response.kind = "response"
    /\ lastCall.response.ok
    /\ parseLibraryItemsFromText(lastCall.response.body).err = ERR_NO_FIGURES
    /\ lastCall.arg \notin catalogPreviewLoadingRef
    /\ \A e \in catalogPreviewElementsByCollectionId : e.id # lastCall.arg
    /\ fetchesIssued < MaxFetches

(***************************************************************************)
(* Further properties of the catalog loader, checked under SpecCatalog     *)
(***************************************************************************)
\* The catalog document of the load that has just succeeded
LoadedCatalog == lastCall.response.body
LoadSucceeded == LoadResumed /\ ~CatalogLoadFailed(lastCall.response)

\* The entry has a name and a source that are strings and not blank
IsAcceptedEntry(entry) ==
    /\ IsNonBlankString(Get(entry, "name"))
    /\ IsNonBlankString(Get(entry, "source"))

\* The positions (one-based) of the accepted entries in the catalog entry list
AcceptedPositions(entries) ==
    SelectSeq([i \in 1..Len(entries) |-> i], LAMBDA i : IsAcceptedEntry(entries[i]))

\* C25: after a successful load the collections are the accepted entries of the
\* catalog entry list, in order, each with the id <source>-<index>, index its
\* zero-based position in that list; the ids of catalogCollections are pairwise
\* distinct in every state; and [{name: Charts, source: charts/charts.json}]
\* yields the one collection charts/charts.json-0 without preview.
C25_CollectionIdsByPosition ==
    /\ \A i, j \in 1..Len(catalogCollections) :
           i # j => catalogCollections[i].id # catalogCollections[j].id
    /\ LoadSucceeded =>
           LET entries == extractCatalogEntries(LoadedCatalog)
               accepted == AcceptedPositions(entries)
           IN  /\ Len(catalogCollections) = Len(accepted)
               /\ \A k \in 1..Len(accepted) :
                      /\ catalogCollections[k].source = Trim(Get(entries[accepted[k]], "source").v)
                      /\ catalogCollections[k].id =
                             catalogCollections[k].source \o "-" \o NumToString(accepted[k] - 1)
    /\ (LoadSucceeded /\ LoadedCatalog = JArr(<<JObj(<<Pair("name", JStr("Charts")),
                                                       Pair("source", JStr("charts/charts.json"))>>)>>))
          => catalogCollections =
                 <<Collection("charts/charts.json-0", "Charts", "charts/charts.json",
                              Undefined, Undefined, Undefined)>>

\* Two accepted records share their source, with a rejected record between them
C25_Witness ==
    /\ LoadSucceeded
    /\ Len(extractCatalogEntries(LoadedCatalog)) = 3
    /\ Len(catalogCollections) = 2
    /\ catalogCollections[1].source = catalogCollections[2].source
    /\ catalogCollections[1].id = "x/a.json-0"
    /\ catalogCollections[2].id = "x/a.json-2"


(***************************************************************************)
(* Properties of the preview bounds, checked under SpecBounds              *)
(***************************************************************************)
Rendered == previewBounds # JNull

Coordinate(element, key) ==
    IF Get(element, key).t = "num" THEN Get(element, key).v ELSE 0

\* The well-formed members [px, py, ...] of element.points
PointsOf(element) ==
    IF ~IsArray(Get(element, "points")) THEN {}
    ELSE { point \in { Get(element, "points").v[i] : i \in 1..Len(Get(element, "points").v) } :
             /\ IsArray(point)
             /\ Len(point.v) >= 2
             /\ point.v[1].t = "num"
             /\ point.v[2].t = "num" }

\* (x, y) lies in the box with the padding to spare on every side
InsidePadded(box, x, y) ==
    /\ box.minX + padding <= x
    /\ x <= box.minX + box.width - padding
    /\ box.minY + padding <= y
    /\ y <= box.minY + box.height - padding

\* C29: the box of a non-empty element sequence (every element contributes
\* the finite corner (x, y), so its bounds are finite) is at least 40 + 24
\* wide and 30 + 24 high and holds, 12 units inside each of its sides, both
\* corners (x, y) and (x + width, y + height) of every element and every
\* absolute point (x + px, y + py), whatever the signs of width and height.
C29_BoxContainsElements ==
    (Rendered /\ previewElements # <<>>) =>
        /\ previewBounds.width >= MinPreviewWidth + 2 * padding
        /\ previewBounds.height >= MinPreviewHeight + 2 * padding
        /\ \A i \in 1..Len(previewElements) :
            LET element == previewElements[i]
                x == Coordinate(element, "x")
                y == Coordinate(element, "y")
            IN  /\ InsidePadded(previewBounds, x, y)
                /\ InsidePadded(previewBounds, x + Coordinate(element, "width"),
                                y + Coordinate(element, "height"))
                /\ \A point \in PointsOf(element) :
                    InsidePadded(previewBounds, x + point.v[1].v, y + point.v[2].v)

\* A measured sequence with a negative width, a negative height and points
\* that reach outside every element's rectangle
C29_Witness ==
    /\ Rendered
    /\ \E i \in 1..Len(previewElements) : Coordinate(previewElements[i], "width") < 0
    /\ \E i \in 1..Len(previewElements) : Coordinate(previewElements[i], "height") < 0
    /\ \E i \in 1..Len(previewElements) :
        \E point \in PointsOf(previewElements[i]) :
            Coordinate(previewElements[i], "y") + point.v[2].v
                > Coordinate(previewElements[i], "y") + Coordinate(previewElements[i], "height")
    /\ previewBounds.width > MinPreviewWidth + 2 * padding

\* A measured single element without extent: the minimum size applies
C29_WitnessMinimum ==
    /\ Rendered
    /\ Len(previewElements) = 1
    /\ previewBounds.width = MinPreviewWidth + 2 * padding
    /\ previewBounds.height = MinPreviewHeight + 2 * padding

\* An element that carries no finite coordinate value: none of x, y, width
\* and height is a finite number and it has no well-formed point
NoFiniteCoordinates(element) ==
    /\ \A key \in {"x", "y", "width", "height"} : Get(element, key).t # "num"
    /\ PointsOf(element) = {}

DegenerateInput ==
    /\ previewElements # <<>>
    /\ \A i \in 1..Len(previewElements) : NoFiniteCoordinates(previewElements[i])

\* C30: computeItemPreviewBounds returns the default box (0, 0, 120, 84) for
\* the empty element sequence and for a sequence whose elements carry no
\* finite coordinate value.
C30_DefaultBoxWithoutFiniteBounds ==
    (Rendered /\ (previewElements = <<>> \/ DegenerateInput)) =>
        previewBounds = DefaultPreviewBox

\* C30 as the code has it: the default box is the box of the empty sequence
\* only; an element without finite coordinates is measured as a point at
\* the origin, and a sequence of such elements gets the minimum box around
\* the origin.
C30_DefaultBoxForEmptyOnly ==
    Rendered =>
        /\ previewElements = <<>> <=> previewBounds = DefaultPreviewBox
        /\ DegenerateInput =>
            previewBounds = [minX |-> 0 - padding, minY |-> 0 - padding,
                             width |-> MinPreviewWidth + 2 * padding,
                             height |-> MinPreviewHeight + 2 * padding]

\* Elements without any finite coordinate value have been measured
C30_Witness == Rendered /\ DegenerateInput

\* The empty sequence has been measured
C30_WitnessEmpty == Rendered /\ previewElements = <<>>

(***************************************************************************)
(* Properties of the rendered shapes, checked under SpecBounds             *)
(***************************************************************************)
RoundedRectangle == [tag |-> "rect", rx |-> CornerRadius]

\* The type of an element as the document has it, when it is a string
HasType(element, names) ==
    IsString(Get(element, "type")) /\ Get(element, "type").v \in names

\* C31: every element whose type is anything other than ellipse, diamond,
\* line, arrow, freedraw or text (a missing, non-string or unknown type
\* included) is rendered as a rounded rectangle.
C31_OtherTypesAreRoundedRectangles ==
    Rendered =>
        \A i \in 1..Len(previewElements) :
            ~HasType(previewElements[i],
                     {"ellipse", "diamond", "line", "arrow", "freedraw", "text"})
                => previewShapes[i] = RoundedRectangle

\* C31 as the code has it: the type draw is a polyline type as well; every
\* element whose type is none of ellipse, diamond, line, arrow, freedraw,
\* draw and text is rendered as a rounded rectangle, and the seven named
\* types are not.
C31_OtherTypesButDrawAreRoundedRectangles ==
    Rendered =>
        /\ Len(previewShapes) = Len(previewElements)
        /\ \A i \in 1..Len(previewElements) :
            /\ ~HasType(previewElements[i],
                        {"ellipse", "diamond", "line", "arrow", "freedraw", "draw", "text"})
                => previewShapes[i] = RoundedRectangle
            /\ HasType(previewElements[i], {"line", "arrow", "freedraw", "draw"})
                => previewShapes[i] = [tag |-> "polyline"]
            /\ HasType(previewElements[i], {"ellipse"}) => previewShapes[i] = [tag |-> "ellipse"]
            /\ HasType(previewElements[i], {"diamond"}) => previewShapes[i] = [tag |-> "polygon"]
            /\ HasType(previewElements[i], {"text"}) => previewShapes[i] = [tag |-> "text"]

\* An element of an unknown type and one without a string type have been
\* rendered
C31_Witness ==
    /\ Rendered
    /\ Len(previewElements) = 2
    /\ HasType(previewElements[1], {"frame"})
    /\ ~IsString(Get(previewElements[2], "type"))
    /\ previewShapes = <<RoundedRectangle, RoundedRectangle>>

\* An element of type draw has been rendered
C31_WitnessDraw ==
    /\ Rendered
    /\ \E i \in 1..Len(previewElements) : HasType(previewElements[i], {"draw"})

(***************************************************************************)
(* Further properties of the import, checked under SpecImport              *)
(***************************************************************************)
\* handleImportCatalogSelection passed its guards in this step and ran
\* importLibraryItems
ImportReachesHost ==
    /\ Invoked("handleImportCatalogSelection")
    /\ lastCall'.did \notin {"returned", "rejected"}

\* C32: importLibraryItems makes exactly one host call per invocation:
\* updateLibrary with merge = true where the host has it, the updateScene
\* fallback otherwise, never both; without the editor API it throws and
\* makes no call.  A continuation after the await makes no further call.
C32_ExactlyOneHostCall ==
    [][ /\ ImportReachesHost =>
            /\ excalidrawApi = "none" =>
                /\ lastCall'.hostCalls = <<>>
                /\ lastCall'.did = "failed"
            /\ excalidrawApi = "updateLibrary" =>
                /\ Len(lastCall'.hostCalls) = 1
                /\ lastCall'.hostCalls[1].fn = "updateLibrary"
                /\ lastCall'.hostCalls[1].merge
                /\ lastCall'.hostCalls[1].libraryItems # <<>>
            /\ excalidrawApi = "updateScene" =>
                /\ Len(lastCall'.hostCalls) = 1
                /\ lastCall'.hostCalls[1].fn = "updateScene"
                /\ lastCall'.hostCalls[1].libraryItems # <<>>
        /\ lastCall'.resumed => lastCall'.hostCalls = <<>> ]_vars

\* An import has handed its items to updateLibrary and awaits it
C32_Witness ==
    /\ lastCall.fn = "handleImportCatalogSelection"
    /\ lastCall.did = "importing"
    /\ Len(lastCall.hostCalls) = 1
    /\ lastCall.hostCalls[1].fn = "updateLibrary"
    /\ ImportInFlight

\* An import has used the updateScene fallback
C32_WitnessFallback ==
    /\ lastCall.fn = "handleImportCatalogSelection"
    /\ Len(lastCall.hostCalls) = 1
    /\ lastCall.hostCalls[1].fn = "updateScene"

\* An import has been attempted without the editor API
C32_WitnessNoApi ==
    /\ lastCall.fn = "handleImportCatalogSelection"
    /\ lastCall.did = "failed"
    /\ excalidrawApi = "none"

(***************************************************************************)
(* The error message of the catalog, checked under SpecCatalog             *)
(***************************************************************************)
\* C33: catalogError is non-null exactly while catalogLoadState is "error":
\* starting a load clears the message, a load that succeeds leaves it null,
\* and no succession of loads leaves a message beside a "ready" catalog.
C33_ErrorMessageIffErrorState ==
    /\ [](catalogError # JNull <=> catalogLoadState = "error")
    /\ [][ /\ catalogFetches' > catalogFetches =>
                (catalogLoadState' = "loading" /\ catalogError' = JNull)
           /\ (lastCall'.resumed /\ lastCall'.fn = "loadCatalogCollections"
                                 /\ catalogLoadState' = "ready") =>
                (catalogError' = JNull /\ catalogError = JNull) ]_vars

\* A reload after a failed load has succeeded: the catalog is ready, the
\* last thing that happened is a good response, and more than one load ran
C33_Witness ==
    /\ catalogLoadState = "ready"
    /\ catalogError = JNull
    /\ fetchesIssued >= 2
    /\ lastCall.fn = "loadCatalogCollections"
    /\ lastCall.resumed

\* A load has failed and its message is shown
C33_WitnessError ==
    /\ catalogLoadState = "error"
    /\ catalogError # JNull

(***************************************************************************)
(* The selected ids, checked under SpecImport                              *)
(***************************************************************************)
ItemIds(selection) == {selection.items[i].id : i \in 1..Len(selection.items)}

NoDuplicates(ids) == \A i, j \in 1..Len(ids) : i # j => ids[i] # ids[j]

\* C34: while a selection is shown, selectedItemIds has no duplicates and
\* holds ids of listed items only, whatever toggles of listed items,
\* select-all and clear have run; a preview that installs a selection
\* installs it with nothing selected.
C34_SelectedIdsAreListedOnce ==
    /\ [](catalogSelection # JNull =>
            /\ NoDuplicates(catalogSelection.selectedItemIds)
            /\ SelectedIds(catalogSelection) \subseteq ItemIds(catalogSelection))
    /\ [][(lastCall'.fn = "handlePreviewCollection" /\ catalogSelection' # JNull
              /\ catalogSelection' # catalogSelection) =>
            catalogSelection'.selectedItemIds = <<>>]_vars

\* Both items of a two-item collection are selected and the last operation
\* was select-all
C34_Witness ==
    /\ catalogSelection # JNull
    /\ Len(catalogSelection.items) = 2
    /\ Len(catalogSelection.selectedItemIds) = 2
    /\ lastCall.fn = "handleSelectAllCatalogItems"

(***************************************************************************)
(* The currently-importing marker, checked under SpecMarker                *)
(***************************************************************************)
\* A preview fetch or an import was resumed in this step
GuardedCallSettles ==
    /\ lastCall'.resumed
    /\ lastCall'.fn \in {"handlePreviewCollection", "handleImportCatalogSelection"}
    /\ Len(guardedCalls') < Len(guardedCalls)

\* C35: every preview fetch or import that sets collectionBeingAddedId
\* clears it when its fetch or host call settles, on success and on every
\* failure; an import that fails before it awaits anything leaves it null;
\* so a marker that is set is null again at some later time, given that the
\* pending operation settles, and blocks the closing of the dialog no
\* longer.
C35_MarkerIsCleared ==
    /\ [][ /\ GuardedCallSettles => collectionBeingAddedId' = JNull
           /\ (Invoked("handleImportCatalogSelection") /\ lastCall'.did = "failed") =>
                collectionBeingAddedId' = JNull ]_vars
    /\ [](collectionBeingAddedId # JNull <=> guardedCalls # <<>>)
    /\ (collectionBeingAddedId # JNull) ~> (collectionBeingAddedId = JNull)

\* A preview fetch has failed and the marker is null again
C35_Witness ==
    /\ lastCall.fn = "handlePreviewCollection"
    /\ lastCall.resumed
    /\ lastCall.response.kind = "rejected"
    /\ collectionBeingAddedId = JNull

\* The host has rejected an import and the marker is null again
C35_WitnessImport ==
    /\ lastCall.fn = "handleImportCatalogSelection"
    /\ lastCall.resumed
    /\ lastCall.did = "failed"
    /\ collectionBeingAddedId = JNull

(***************************************************************************)
(* The file import beside the guarded calls, checked under SpecFileBeside  *)
(***************************************************************************)
\* A step of the file import: the change handler, the FileReader's callback
\* or the continuation after the host call
FileImportStep == lastCall'.fn \in {"handleFileSelected", "importLibraryFromText"}

\* A host call of a file import is awaited
FileHostCallInFlight == parsePc = "importing"

PendingKind(kind) == \E k \in 1..Len(guardedCalls) : guardedCalls[k].kind = kind

\* C36: a local-file import is not gated by the currently-importing marker:
\* no step of it changes collectionBeingAddedId or catalogSelection (or any
\* other state of the component, or the pending guarded calls), and the
\* handler given a file starts reading it whether or not the marker is set.
\* That its host call is in flight beside a preview fetch and beside a
\* catalog import are the two states reached.
C36_FileImportIgnoresMarker ==
    [][FileImportStep =>
        /\ UNCHANGED <<collectionBeingAddedId, catalogSelection>>
        /\ UNCHANGED <<stateVars, guardedCalls>>
        /\ (Invoked("handleFileSelected") /\ lastCall'.arg = JStr("file")) =>
                (lastCall'.did = "reading" /\ parsePc' = "reading")]_vars

\* The host call of a file import is in flight while a preview fetch is
C36_Witness ==
    /\ FileHostCallInFlight
    /\ collectionBeingAddedId # JNull
    /\ PendingKind("preview")

\* The host call of a file import is in flight while a catalog import is
C36_WitnessImport ==
    /\ FileHostCallInFlight
    /\ collectionBeingAddedId # JNull
    /\ PendingKind("import")

\* A file was chosen while the marker was set
C36_WitnessChosen ==
    /\ lastCall = FileCall(TRUE, "reading")
    /\ collectionBeingAddedId # JNull

(***************************************************************************)
(* Properties of the touch panning, checked under SpecTouch                *)
(***************************************************************************)
PointerEvent == lastCall'.fn \in {"onPointerDown", "onPointerUp", "handlePointerCancel"}

\* C38: a pre-touch tool is saved only while a touch pointer is tracked, the
\* saved tool is never the hand tool, and a touch that comes down while
\* another is tracked leaves the saved tool as it is.
C38_SavedToolOnlyWhileTouching ==
    /\ [](toolBeforeTouch # JNull => (touchPointerIds # {} /\ toolBeforeTouch.type # "hand"))
    /\ [][(lastCall'.fn = "onPointerDown" /\ lastCall'.arg = JStr("touch")
              /\ touchPointerIds # {}) =>
            toolBeforeTouch' = toolBeforeTouch]_vars

\* Two fingers are down, the tool was changed after the first came down, and
\* the tool saved at the first is still the saved one
C38_Witness ==
    /\ lastCall = PointerCall("onPointerDown", "touch", "another touch")
    /\ touchPointerIds = {1, 2}
    /\ toolBeforeTouch = Tool("freedraw")
    /\ activeTool = Tool("selection")

\* The step empties a pointer set that tracked a touch, or is a pen coming
\* down, while a tool is saved
TouchSetBecomesEmpty ==
    /\ PointerEvent
    /\ toolBeforeTouch # JNull
    /\ touchPointerIds' = {}
    /\ \/ touchPointerIds # {}
       \/ (lastCall'.fn = "onPointerDown" /\ lastCall'.arg = JStr("pen"))

\* C39: when the tracked touch set becomes empty (the last touch is lifted
\* or cancelled, or a pen comes down) while a tool is saved, the saved tool
\* is cleared, and it is activated again if and only if the current tool is
\* still hand: a tool chosen during the touch stays.  A pointer event that
\* leaves a touch tracked restores nothing: the saved tool stays saved and
\* the active tool is not set back.
C39_RestoreWhenLastTouchLifts ==
    [][ /\ TouchSetBecomesEmpty =>
            /\ toolBeforeTouch' = JNull
            /\ activeTool.type = "hand" => activeTool' = toolBeforeTouch
            /\ activeTool.type # "hand" => activeTool' = activeTool
        /\ (PointerEvent /\ touchPointerIds' # {} /\ toolBeforeTouch # JNull) =>
            /\ toolBeforeTouch' = toolBeforeTouch
            /\ activeTool' = activeTool ]_vars

\* The last finger was lifted after the tool had been changed during the
\* touch: the saved tool is gone and the chosen tool is still active
C39_Witness ==
    /\ lastCall = PointerCall("onPointerUp", "touch", "cleared")
    /\ touchPointerIds = {}
    /\ toolBeforeTouch = JNull
    /\ activeTool = Tool("selection")

\* A pen came down during a touch that had saved a tool: no touch is tracked
\* any more and the saved tool is active again
C39_WitnessPen ==
    /\ lastCall = PointerCall("onPointerDown", "pen", "restored")
    /\ touchPointerIds = {}
    /\ toolBeforeTouch = JNull
    /\ activeTool = Tool("freedraw")
=============================================================================
